---- MODULE Spec2Model ----
(***************************************************************************)
(* A model of the irc_client session engine: the framer (ServerIo), the    *)
(* message parser and serializer, the dispatcher and the three threads     *)
(* started by client::start (reader/writer thread, input thread, main      *)
(* loop).                                                                  *)
(*                                                                         *)
(* The threads, the channels and QUIT_REQUESTED are those of client.rs;    *)
(* the dispatcher the main loop calls is IrcMessage::handle of             *)
(* handlers/mod.rs, the successor of client.rs's on_msg; the framer is     *)
(* net/server_io.rs; the codec is irc/message.rs and irc/command.rs.  The  *)
(* ClientState helpers that handlers/mod.rs calls (add_line, warn_in,      *)
(* warn, ensure_target_exists, ConnectedState::new) are not among the      *)
(* source files and follow the specification's description of them.        *)
(*                                                                         *)
(* Text is modelled as Rust stores it: a String is its sequence of UTF-8   *)
(* bytes, a byte is a number in 0..255.                                    *)
(*                                                                         *)
(* Environment assumptions: writes to the terminal succeed (the render     *)
(* and crossterm calls return Ok); the TCP stream may return any result.   *)
(***************************************************************************)
EXTENDS Integers, Sequences, FiniteSets, TLC

(***************************************************************************)
(* Bytes that the code names in literals.                                  *)
(***************************************************************************)
CR == 13
LF == 10
SP == 32
COLON == 58
AT == 64
BANG == 33
COMMA == 44
SLASH == 47
PLUS == 43
CRLF == <<CR, LF>>
\* U+FFFD REPLACEMENT CHARACTER in UTF-8
REPLACEMENT == <<239, 191, 189>>

(***************************************************************************)
(* Generic helpers on sequences (str::find, split_at, trim_start_matches,  *)
(* starts_with, split_once).                                               *)
(***************************************************************************)
Drop(s, n) == SubSeq(s, n + 1, Len(s))

Take(s, n) == SubSeq(s, 1, n)

\* str::find(pat): 1-based index of the first occurrence of pat, 0 if none
Find(s, pat) ==
  LET hits == {i \in 1..(Len(s) - Len(pat) + 1) : SubSeq(s, i, i + Len(pat) - 1) = pat}
  IN IF hits = {} THEN 0 ELSE CHOOSE i \in hits : \A j \in hits : i <= j

\* str::trim_start_matches(' ')
TrimStart(s) ==
  LET nonsp == {i \in 1..Len(s) : s[i] # SP}
  IN IF nonsp = {} THEN <<>>
     ELSE Drop(s, (CHOOSE i \in nonsp : \A j \in nonsp : i <= j) - 1)

RECURSIVE Flatten(_)
Flatten(ss) == IF ss = <<>> THEN <<>> ELSE Head(ss) \o Flatten(Tail(ss))

(***************************************************************************)
(* UTF-8 decoding as <[u8]>::utf8_chunks performs it.                      *)
(***************************************************************************)
utf8_char_width(b) ==
  IF b < 128 THEN 1
  ELSE IF b >= 194 /\ b <= 223 THEN 2
  ELSE IF b >= 224 /\ b <= 239 THEN 3
  ELSE IF b >= 240 /\ b <= 244 THEN 4
  ELSE 0

safe_get(s, i) == IF i >= 1 /\ i <= Len(s) THEN s[i] ELSE 0

IsCont(b) == b >= 128 /\ b <= 191

SecondOk3(first, second) ==
  \/ first = 224 /\ second >= 160 /\ second <= 191
  \/ first >= 225 /\ first <= 236 /\ second >= 128 /\ second <= 191
  \/ first = 237 /\ second >= 128 /\ second <= 159
  \/ first >= 238 /\ first <= 239 /\ second >= 128 /\ second <= 191

SecondOk4(first, second) ==
  \/ first = 240 /\ second >= 144 /\ second <= 191
  \/ first >= 241 /\ first <= 243 /\ second >= 128 /\ second <= 191
  \/ first = 244 /\ second >= 128 /\ second <= 143

\* The character starting at s[i]: ok with its width, or not ok with the
\* length of the invalid sequence (the lead byte and the continuation bytes
\* that were accepted before the decoder stopped).
CharAt(s, i) ==
  LET b == s[i]
      w == utf8_char_width(b)
  IN IF w = 1 THEN [ok |-> TRUE, n |-> 1]
     ELSE IF w = 2 THEN
       IF IsCont(safe_get(s, i + 1)) THEN [ok |-> TRUE, n |-> 2]
       ELSE [ok |-> FALSE, n |-> 1]
     ELSE IF w = 3 THEN
       IF ~SecondOk3(b, safe_get(s, i + 1)) THEN [ok |-> FALSE, n |-> 1]
       ELSE IF ~IsCont(safe_get(s, i + 2)) THEN [ok |-> FALSE, n |-> 2]
       ELSE [ok |-> TRUE, n |-> 3]
     ELSE IF w = 4 THEN
       IF ~SecondOk4(b, safe_get(s, i + 1)) THEN [ok |-> FALSE, n |-> 1]
       ELSE IF ~IsCont(safe_get(s, i + 2)) THEN [ok |-> FALSE, n |-> 2]
       ELSE IF ~IsCont(safe_get(s, i + 3)) THEN [ok |-> FALSE, n |-> 3]
       ELSE [ok |-> TRUE, n |-> 4]
     ELSE [ok |-> FALSE, n |-> 1]

\* from_utf8_lossy_split: decode b; an invalid sequence followed by more
\* input becomes U+FFFD, an invalid sequence that ends the input is returned
\* undecoded.
RECURSIVE LossySplitFrom(_, _, _)
LossySplitFrom(b, i, s) ==
  IF i > Len(b) THEN [decoded |-> s, invalid |-> <<>>]
  ELSE LET c == CharAt(b, i)
       IN IF c.ok THEN LossySplitFrom(b, i + c.n, s \o SubSeq(b, i, i + c.n - 1))
          ELSE IF i + c.n <= Len(b)
               THEN LossySplitFrom(b, i + c.n, s \o REPLACEMENT)
               ELSE [decoded |-> s, invalid |-> SubSeq(b, i, i + c.n - 1)]

from_utf8_lossy_split(b) == LossySplitFrom(b, 1, <<>>)

(***************************************************************************)
(* The message model (irc/message.rs, irc/command.rs, irc/param.rs).       *)
(* A Param is String(s) or List(l); a message is its source, the name of   *)
(* its IrcCommand variant, the numeric (0 when not a Numeric) and its      *)
(* arguments as Params.                                                    *)
(***************************************************************************)
PString(s) == [list |-> FALSE, s |-> s, l |-> <<>>]

PList(l) == [list |-> TRUE, s |-> <<>>, l |-> l]

NoSource == [kind |-> "None", name |-> <<>>, user |-> <<>>, host |-> <<>>]

Msg(source, cmd, num, args) ==
  [source |-> source, cmd |-> cmd, num |-> num, args |-> args]

\* IrcMessage::from_command
from_command(cmd, args) == Msg(NoSource, cmd, 0, args)

NoMsg == Msg(NoSource, "", 0, <<>>)

ParseOk(m) == [kind |-> "Ok", err |-> "", msg |-> m]

ParseErr(e) == [kind |-> "Err", err |-> e, msg |-> NoMsg]

\* a todo!() or unwrap() that unwinds the calling thread
ParsePanic == [kind |-> "Panic", err |-> "", msg |-> NoMsg]

VERB_AUTHENTICATE == <<65, 85, 84, 72, 69, 78, 84, 73, 67, 65, 84, 69>>
VERB_NICK == <<78, 73, 67, 75>>
VERB_PING == <<80, 73, 78, 71>>
VERB_PONG == <<80, 79, 78, 71>>
VERB_QUIT == <<81, 85, 73, 84>>
VERB_ERROR == <<69, 82, 82, 79, 82>>
VERB_JOIN == <<74, 79, 73, 78>>
VERB_PRIVMSG == <<80, 82, 73, 86, 77, 83, 71>>
VERB_NOTICE == <<78, 79, 84, 73, 67, 69>>

\* the verbs whose arm of IrcCommand::parse is todo!(): CAP PASS OPER NAMES
\* LIST INVITE KICK MOTD VERSION ADMIN CONNECT LUSERS TIME STATS HELP INFO
\* WHO WHOIS WHOWAS KILL REHASH RESTART SQUIT AWAY LINKS
TodoVerbs ==
  {<<67, 65, 80>>, <<80, 65, 83, 83>>, <<79, 80, 69, 82>>,
   <<78, 65, 77, 69, 83>>, <<76, 73, 83, 84>>, <<73, 78, 86, 73, 84, 69>>,
   <<75, 73, 67, 75>>, <<77, 79, 84, 68>>, <<86, 69, 82, 83, 73, 79, 78>>,
   <<65, 68, 77, 73, 78>>, <<67, 79, 78, 78, 69, 67, 84>>,
   <<76, 85, 83, 69, 82, 83>>, <<84, 73, 77, 69>>, <<83, 84, 65, 84, 83>>,
   <<72, 69, 76, 80>>, <<73, 78, 70, 79>>, <<87, 72, 79>>,
   <<87, 72, 79, 73, 83>>, <<87, 72, 79, 87, 65, 83>>, <<75, 73, 76, 76>>,
   <<82, 69, 72, 65, 83, 72>>, <<82, 69, 83, 84, 65, 82, 84>>,
   <<83, 81, 85, 73, 84>>, <<65, 87, 65, 89>>, <<76, 73, 78, 75, 83>>}

\* str::split(sep) for a one-byte separator
RECURSIVE Split(_, _)
Split(s, sep) ==
  LET i == Find(s, <<sep>>)
  IN IF i = 0 THEN <<s>> ELSE <<Take(s, i - 1)>> \o Split(Drop(s, i), sep)

\* str::split_once(sep): found, the text before and the text after
split_once(s, sep) ==
  LET i == Find(s, <<sep>>)
  IN IF i = 0 THEN [found |-> FALSE, before |-> s, after |-> <<>>]
     ELSE [found |-> TRUE, before |-> Take(s, i - 1), after |-> Drop(s, i)]

\* param::parse_params
RECURSIVE ParseParamsFrom(_, _)
ParseParamsFrom(s, params) ==
  IF s = <<>> THEN params
  ELSE LET sp == Find(s, <<SP>>)
           end_idx == IF sp = 0 THEN Len(s) ELSE sp - 1
           param == Take(s, end_idx)
       IN IF param # <<>> /\ param[1] = COLON
          THEN Append(params, PString(Drop(s, 1)))
          ELSE IF Find(param, <<COMMA>>) # 0
          THEN ParseParamsFrom(TrimStart(Drop(s, end_idx)),
                 Append(params, PList(SelectSeq(Split(param, COMMA), LAMBDA x : x # <<>>))))
          ELSE ParseParamsFrom(TrimStart(Drop(s, end_idx)), Append(params, PString(param)))

parse_params(s) == ParseParamsFrom(TrimStart(s), <<>>)

\* str::parse::<u16>(): an optional '+' and at least one ASCII digit, the
\* value at most 65535; -1 stands for Err
RECURSIVE DigitsValue(_, _)
DigitsValue(s, acc) ==
  IF s = <<>> THEN acc
  ELSE IF s[1] < 48 \/ s[1] > 57 \/ acc = -1 THEN -1
  ELSE LET v == acc * 10 + (s[1] - 48)
       IN IF v > 65535 THEN -1 ELSE DigitsValue(Tail(s), v)

parse_u16(s) ==
  LET digits == IF s # <<>> /\ s[1] = PLUS THEN Tail(s) ELSE s
  IN IF digits = <<>> THEN -1 ELSE DigitsValue(digits, 0)

(***************************************************************************)
(* Names (constants/names.rs, channel/user.rs, channel/mod.rs).            *)
(***************************************************************************)
CHANNEL_TYPES == {35, 38}

CHANNEL_MEMBERSHIP_PREFIXES == {126, 38, 64, 37, 43}

INVALID_NICKNAME_CHARACTERS == {32, 44, 42, 63, 33, 64}

INVALID_NICKNAME_START == {36, 58}

\* Nickname::new(nick).is_some()
NicknameValid(nick) ==
  /\ nick # <<>>
  /\ nick[1] \notin INVALID_NICKNAME_START
  /\ nick[1] \notin CHANNEL_MEMBERSHIP_PREFIXES
  /\ \A i \in 1..Len(nick) : nick[i] \notin INVALID_NICKNAME_CHARACTERS

\* ChannelName::new(name).is_some()
ChannelNameValid(name) == name # <<>> /\ name[1] \in CHANNEL_TYPES

\* Source::parse; Nickname::new(nick).unwrap() panics on an invalid nick
SourceParse(s) ==
  LET bang == split_once(s, BANG)
      at == split_once(s, AT)
      rest == split_once(bang.after, AT)
      nick == IF bang.found THEN bang.before ELSE at.before
  IN IF ~bang.found /\ ~at.found
     THEN [panic |-> FALSE,
           source |-> [kind |-> "Server", name |-> s, user |-> <<>>, host |-> <<>>]]
     ELSE IF ~NicknameValid(nick) THEN [panic |-> TRUE, source |-> NoSource]
     ELSE IF bang.found /\ rest.found
     THEN [panic |-> FALSE,
           source |-> [kind |-> "Nick", name |-> nick, user |-> rest.before, host |-> rest.after]]
     ELSE IF bang.found
     THEN [panic |-> FALSE,
           source |-> [kind |-> "Nick", name |-> nick, user |-> bang.after, host |-> <<>>]]
     ELSE [panic |-> FALSE,
           source |-> [kind |-> "Nick", name |-> nick, user |-> <<>>, host |-> at.after]]

\* Source::get_name
get_name(source) == source.name

\* Param::to_irc_string
RECURSIVE JoinWith(_, _)
JoinWith(l, sep) ==
  IF l = <<>> THEN <<>>
  ELSE IF Len(l) = 1 THEN l[1]
  ELSE l[1] \o <<sep>> \o JoinWith(Tail(l), sep)

ParamToIrcString(p) == IF p.list THEN JoinWith(p.l, COMMA) ELSE p.s

VERB_USER == <<85, 83, 69, 82>>
VERB_PART == <<80, 65, 82, 84>>
VERB_TOPIC == <<84, 79, 80, 73, 67>>
VERB_MODE == <<77, 79, 68, 69>>

\* Param::optional_list
optional_list(p) == IF p.list THEN p.l ELSE <<p.s>>

\* Target::new(s).is_some() (targets.rs)
TargetValid(t) ==
  /\ t # <<>>
  /\ \/ t[1] \in CHANNEL_TYPES
     \/ /\ t[1] \notin INVALID_NICKNAME_START
        /\ t[1] \notin CHANNEL_MEMBERSHIP_PREFIXES
        /\ \A i \in 1..Len(t) : t[i] \notin INVALID_NICKNAME_CHARACTERS

\* the (channel, key) pairs of JOIN: <<channel>> when there is no key
JoinPairs(channels, keys) ==
  [i \in 1..Len(channels) |->
     PList(IF i <= Len(keys) THEN <<channels[i], keys[i]>> ELSE <<channels[i]>>)]

\* the mode text of MODE: the remaining params joined with spaces
RECURSIVE ModeText(_)
ModeText(rest) ==
  IF Len(rest) = 1 THEN ParamToIrcString(rest[1])
  ELSE ParamToIrcString(rest[1]) \o <<SP>> \o ModeText(Tail(rest))

\* IrcCommand::parse
IrcCommandParse(s, source) ==
  LET parts == split_once(s, SP)
      command == parts.before
      args == parse_params(parts.after)
      num == parse_u16(command)
  IN IF command = VERB_AUTHENTICATE THEN ParseOk(Msg(source, "Authenticate", 0, <<>>))
     ELSE IF command \in TodoVerbs THEN ParsePanic
     ELSE IF command = VERB_USER THEN
       IF Len(args) < 4 THEN ParseErr("MissingParams")
       ELSE IF args[1].list \/ args[4].list THEN ParseErr("InvalidParams")
       ELSE ParseOk(Msg(source, "User", 0, <<PString(args[1].s), PString(args[4].s)>>))
     ELSE IF command = VERB_JOIN THEN
       IF args = <<>> THEN ParseErr("MissingParams")
       ELSE LET channels == optional_list(args[1])
                keys == IF Len(args) = 1 THEN <<>> ELSE optional_list(args[2])
            IN IF Len(keys) > Len(channels) THEN ParseErr("InvalidParams")
               ELSE ParseOk(Msg(source, "Join", 0, JoinPairs(channels, keys)))
     ELSE IF command = VERB_PART THEN
       IF args = <<>> THEN ParseErr("MissingParams")
       ELSE IF Len(args) > 1 /\ args[2].list THEN ParseErr("InvalidParams")
       ELSE ParseOk(Msg(source, "Part", 0,
              <<PList(optional_list(args[1]))>>
                \o (IF Len(args) > 1 THEN <<PString(args[2].s)>> ELSE <<>>)))
     ELSE IF command = VERB_TOPIC THEN
       IF args = <<>> THEN ParseErr("MissingParams")
       ELSE IF args[1].list \/ (Len(args) > 1 /\ args[2].list) THEN ParseErr("InvalidParams")
       ELSE ParseOk(Msg(source, "Topic", 0,
              <<PString(args[1].s)>>
                \o (IF Len(args) > 1 THEN <<PString(args[2].s)>> ELSE <<>>)))
     ELSE IF command = VERB_MODE THEN
       IF args = <<>> THEN ParseErr("MissingParams")
       ELSE IF args[1].list \/ ~TargetValid(args[1].s) THEN ParseErr("InvalidParams")
       ELSE ParseOk(Msg(source, "Mode", 0,
              <<PString(args[1].s)>>
                \o (IF Len(args) > 1 THEN <<PString(ModeText(Tail(args)))>> ELSE <<>>)))
     ELSE IF command \in {VERB_PRIVMSG, VERB_NOTICE} THEN
       IF Len(args) < 2 THEN ParseErr("MissingParams")
       ELSE IF args[2].list THEN ParseErr("InvalidParams")
       ELSE ParseOk(Msg(source, IF command = VERB_PRIVMSG THEN "Privmsg" ELSE "Notice", 0,
              <<PList(SelectSeq(optional_list(args[1]), TargetValid)), PString(args[2].s)>>))
     ELSE IF command \in {VERB_NICK, VERB_PING, VERB_ERROR} THEN
       IF args = <<>> THEN ParseErr("MissingParams")
       ELSE IF args[1].list THEN ParseErr("InvalidParams")
       ELSE ParseOk(Msg(source,
              IF command = VERB_NICK THEN "Nick"
              ELSE IF command = VERB_PING THEN "Ping" ELSE "Error",
              0, <<PString(args[1].s)>>))
     ELSE IF command = VERB_PONG THEN
       IF Len(args) < 2 THEN ParseErr("MissingParams")
       ELSE IF args[2].list THEN ParseErr("InvalidParams")
       ELSE ParseOk(Msg(source, "Pong", 0, <<PString(args[2].s)>>))
     ELSE IF command = VERB_QUIT THEN
       IF args = <<>> THEN ParseOk(Msg(source, "Quit", 0, <<>>))
       ELSE IF args[1].list THEN ParseErr("InvalidParams")
       ELSE ParseOk(Msg(source, "Quit", 0, <<PString(args[1].s)>>))
     ELSE IF num >= 0 /\ num <= 999 THEN ParseOk(Msg(source, "Numeric", num, args))
     ELSE ParseOk(Msg(source, "Unknown", 0, <<PString(command)>> \o args))

\* IrcMessage::parse
IrcMessageParse(line) ==
  LET s0 == TrimStart(line)
      tagged == s0 # <<>> /\ s0[1] = AT
      tags == split_once(Drop(s0, 1), SP)
      s1 == IF tagged THEN tags.after ELSE s0
      sourced == s1 # <<>> /\ s1[1] = COLON
      src == split_once(Drop(s1, 1), SP)
      parsed == SourceParse(src.before)
      s2 == TrimStart(IF sourced THEN src.after ELSE s1)
  IN IF Find(line, CRLF) # 0 THEN ParseErr("InteriorCRLF")
     ELSE IF tagged /\ ~tags.found THEN ParseErr("MissingCommand")
     \* Tags::parse is todo!()
     ELSE IF tagged THEN ParsePanic
     ELSE IF sourced /\ ~src.found THEN ParseErr("MissingCommand")
     ELSE IF sourced /\ parsed.panic THEN ParsePanic
     ELSE IF s2 = <<>> THEN ParseErr("MissingCommand")
     ELSE IrcCommandParse(s2, IF sourced THEN parsed.source ELSE NoSource)

(***************************************************************************)
(* Serialization (IrcCommand::to_irc_string, IrcMessage::to_irc_string).   *)
(* Join carries one List param per (channel, key) pair: <<channel>> when   *)
(* the key is None, <<channel, key>> otherwise.                            *)
(***************************************************************************)
SerOk(bytes) == [kind |-> "Ok", err |-> "", bytes |-> bytes]

SerErr(e) == [kind |-> "Err", err |-> e, bytes |-> <<>>]

SerPanic == [kind |-> "Panic", err |-> "", bytes |-> <<>>]

RECURSIVE UnknownParams(_)
UnknownParams(params) ==
  IF params = <<>> THEN <<>>
  ELSE <<SP>> \o ParamToIrcString(params[1]) \o UnknownParams(Tail(params))

IrcCommandToIrcString(m) ==
  IF m.cmd = "Authenticate" THEN SerOk(VERB_AUTHENTICATE)
  ELSE IF m.cmd = "Pass" THEN SerOk(<<80, 65, 83, 83, 32, 58>> \o m.args[1].s)
  ELSE IF m.cmd = "Nick" THEN SerOk(<<78, 73, 67, 75, 32, 58>> \o m.args[1].s)
  ELSE IF m.cmd = "User"
  THEN SerOk(<<85, 83, 69, 82, 32>> \o m.args[1].s \o <<32, 48, 32, 42, 32, 58>> \o m.args[2].s)
  ELSE IF m.cmd = "Ping" THEN SerOk(<<80, 73, 78, 71, 32, 58>> \o m.args[1].s)
  ELSE IF m.cmd = "Pong" THEN SerOk(<<80, 79, 78, 71, 32, 58>> \o m.args[1].s)
  ELSE IF m.cmd = "Quit"
  THEN SerOk(VERB_QUIT \o (IF m.args = <<>> THEN <<>> ELSE <<COLON>> \o m.args[1].s))
  ELSE IF m.cmd = "Error" THEN SerErr("ClientMayNotCreate")
  ELSE IF m.cmd = "Join" THEN
    IF m.args = <<>> \/ \E i \in 1..Len(m.args) : Len(m.args[i].l) > 1 THEN SerPanic
    ELSE SerOk(VERB_JOIN \o <<SP>>
               \o JoinWith([i \in 1..Len(m.args) |-> m.args[i].l[1]], COMMA) \o <<SP>>)
  ELSE IF m.cmd \in {"Privmsg", "Notice"} THEN
    \* args: List(targets), String(msg); Target::as_str is todo!() for a Nickname
    IF m.args[1].l = <<>> THEN SerErr("InvalidParams")
    ELSE IF \E i \in 1..Len(m.args[1].l) : ~ChannelNameValid(m.args[1].l[i]) THEN SerPanic
    ELSE SerOk((IF m.cmd = "Privmsg" THEN VERB_PRIVMSG ELSE VERB_NOTICE) \o <<SP>>
               \o JoinWith(m.args[1].l, COMMA) \o <<SP, COLON>> \o m.args[2].s)
  ELSE IF m.cmd = "Numeric" THEN SerErr("ClientMayNotCreate")
  ELSE IF m.cmd = "Raw" THEN SerOk(m.args[1].s)
  ELSE IF m.cmd = "Unknown" THEN SerOk(m.args[1].s \o UnknownParams(Tail(m.args)))
  ELSE SerPanic

\* a serializer that does not look at the source
ToIrcString_AnySource(m) ==
  LET c == IrcCommandToIrcString(m)
  IN IF c.kind = "Ok" THEN SerOk(c.bytes \o CRLF) ELSE c

\* IrcMessage::to_irc_string
ToIrcString(m) ==
  IF m.source.kind # "None" THEN SerErr("ClientMustNotSendSource")
  ELSE LET c == IrcCommandToIrcString(m)
       IN IF c.kind = "Ok" THEN SerOk(c.bytes \o CRLF) ELSE c

(***************************************************************************)
(* The framer: ServerIo::recv (net/server_io.rs).                          *)
(* buffer holds the bytes buffer[..recv_idx] carried over from the last    *)
(* call; recv_idx is its length.                                           *)
(***************************************************************************)
MAX_RETRIES == 5

\* the read loop of recv on the results the stream returns, in order; a
\* result is Ok(data), WouldBlock, Interrupted or another io::Error
RECURSIVE ReadLoop(_, _)
ReadLoop(results, retry_count) ==
  LET r == Head(results)
  IN IF r.kind = "Ok"
     THEN IF r.data = <<>> THEN [kind |-> "Closed", data |-> <<>>]
          ELSE [kind |-> "Data", data |-> r.data]
     ELSE IF r.kind = "WouldBlock" THEN [kind |-> "WouldBlock", data |-> <<>>]
     ELSE IF r.kind # "Interrupted" THEN [kind |-> "Io", data |-> <<>>]
     ELSE IF retry_count > MAX_RETRIES THEN [kind |-> "TooManyRetries", data |-> <<>>]
     ELSE ReadLoop(Tail(results), retry_count + 1)

ReadResult(kind, data) == [kind |-> kind, data |-> data]

\* interrupts Interrupted results followed by a final result
ReadResults(interrupts, final) ==
  [i \in 1..interrupts |-> ReadResult("Interrupted", <<>>)] \o <<final>>

\* the while-let loop of recv: split message_buffer on CRLF, skip empty
\* lines, parse the others; the first parse error returns from recv
RECURSIVE ExtractMsgs(_, _)
ExtractMsgs(mb, msgs) ==
  LET idx == Find(mb, CRLF)
      msg_str == Take(mb, idx - 1)
      rest == Drop(mb, idx + 1)
      parsed == IrcMessageParse(msg_str)
  IN IF idx = 0 THEN [kind |-> "Ok", msgs |-> msgs, message_buffer |-> mb]
     ELSE IF msg_str = <<>> THEN ExtractMsgs(rest, msgs)
     ELSE IF parsed.kind = "Ok" THEN ExtractMsgs(rest, Append(msgs, parsed.msg))
     ELSE IF parsed.kind = "Err"
     THEN [kind |-> "IrcParseErr", msgs |-> <<>>, message_buffer |-> rest]
     ELSE [kind |-> "Panic", msgs |-> <<>>, message_buffer |-> rest]

\* the slice of the receive buffer that recv decodes after reading data at
\* buffer[recv_idx..]: &self.buffer[..count]
DecodedSlice(buf, data) == Take(buf \o data, Len(data))

\* recv after a read of data: decode, carry the trailing invalid bytes over
\* and extract the messages.  debug is whether debug assertions are compiled
\* in (debug_assert!(invalid_len < 3)).
RecvData(buf, mb, data, debug) ==
  LET split == from_utf8_lossy_split(DecodedSlice(buf, data))
      ex == ExtractMsgs(mb \o split.decoded, <<>>)
  IN IF debug /\ Len(split.invalid) >= 3
     THEN [kind |-> "Panic", msgs |-> <<>>, message_buffer |-> mb, buffer |-> buf]
     ELSE [kind |-> ex.kind, msgs |-> ex.msgs, message_buffer |-> ex.message_buffer,
           buffer |-> split.invalid]

\* ServerIo::recv on the given read results
Recv(buf, mb, results, debug) ==
  LET rd == ReadLoop(results, 0)
  IN IF rd.kind = "Data" THEN RecvData(buf, mb, rd.data, debug)
     ELSE IF rd.kind = "WouldBlock"
     THEN [kind |-> "Ok", msgs |-> <<>>, message_buffer |-> mb, buffer |-> buf]
     ELSE [kind |-> rd.kind, msgs |-> <<>>, message_buffer |-> mb, buffer |-> buf]

(***************************************************************************)
(* Session state (ClientState) and its helpers.                            *)
(* A Line is a kind ("line", "warn", "error", "debug"), a fixed tag for    *)
(* the literal part of the text and the bytes of the variable part.        *)
(***************************************************************************)
Line(kind, tag, text) == [kind |-> kind, tag |-> tag, text |-> text]

\* Line::push_unstyled: the content without its CR and LF characters; push,
\* From<String> and From<&str> keep the content as it is
push_unstyled(content) == SelectSeq(content, LAMBDA c : c \notin {13, 10})

Status == [kind |-> "Status", name |-> <<>>]

TargetChannel(name) == [kind |-> "Channel", name |-> name]

TargetNickname(name) == [kind |-> "Nickname", name |-> name]

\* a Channel / UserConversation that was just created
NewWindow == [messages |-> <<>>, users |-> {}]

\* ConnectedState::new(nick): no channels, no conversations, no pending NAMES
ConnectedState_new(st, nick) ==
  [st EXCEPT !.phase = "Connected", !.nick = nick,
             !.channels = << >>, !.users = << >>, !.active_names = << >>]

\* position of target t in all_targets, 0 if absent
RECURSIVE IndexOf(_, _, _)
IndexOf(seq, t, i) ==
  IF i > Len(seq) THEN 0 ELSE IF seq[i] = t THEN i ELSE IndexOf(seq, t, i + 1)

\* the map m with key k bound to v
MapPut(m, k, v) == [n \in DOMAIN m \cup {k} |-> IF n = k THEN v ELSE m[n]]

\* the map m without key k
MapRemove(m, k) == [n \in DOMAIN m \ {k} |-> m[n]]

\* the session state with a window for target t, the selection unchanged
with_window(st, t) ==
  LET known == IndexOf(st.all_targets, t, 1) # 0
      wins == IF t.kind = "Channel" THEN st.channels ELSE st.users
      wins2 == IF t.name \in DOMAIN wins THEN wins ELSE MapPut(wins, t.name, NewWindow)
  IN [st EXCEPT !.all_targets = IF known THEN @ ELSE Append(@, t),
                !.channels = IF t.kind = "Channel" THEN wins2 ELSE @,
                !.users = IF t.kind = "Nickname" THEN wins2 ELSE @]

\* whether add_line opens a window for a target that has none; the body of
\* add_line is not part of the source tree, so both behaviours are explored
VARIABLE add_line_creates

\* ClientState::add_line(target, line): append to the history of the target
add_line(st, t, line) ==
  LET st1 == IF t.kind # "Status" /\ add_line_creates THEN with_window(st, t) ELSE st
  IN IF t.kind = "Status" THEN [st EXCEPT !.status_messages = Append(@, line)]
     ELSE IF t.kind = "Channel" /\ t.name \in DOMAIN st1.channels
     THEN [st1 EXCEPT !.channels[t.name].messages = Append(@, line)]
     ELSE IF t.kind = "Nickname" /\ t.name \in DOMAIN st1.users
     THEN [st1 EXCEPT !.users[t.name].messages = Append(@, line)]
     ELSE st1

\* ClientState::warn_in(target, text)
warn_in(st, t, tag, text) == add_line(st, t, Line("warn", tag, text))

\* ClientState::warn(text): a warning in the current window
warn(st, tag, text) == warn_in(st, st.all_targets[st.selected_target_idx + 1], tag, text)

\* ClientState::ensure_target_exists(target): add the window if it is new,
\* and select it
ensure_target_exists(st, t) ==
  LET st1 == with_window(st, t)
  IN [st1 EXCEPT !.selected_target_idx = IndexOf(st1.all_targets, t, 1) - 1]

\* TerminalUi::error / warn / debug / writeln: a line in the terminal's history
ui_push(st, kind, tag, text) == [st EXCEPT !.ui_history = Append(@, Line(kind, tag, text))]

(***************************************************************************)
(* The dispatcher: IrcMessage::handle (handlers/mod.rs).                   *)
(* The result is the new session state, the messages sent on msg_sender    *)
(* and whether handle returned Err.  rx_alive: the receiver of the         *)
(* outbound queue has not been dropped.                                    *)
(***************************************************************************)
RPL_WELCOME == 1

Handled(st, out) == [st |-> st, out |-> out, err |-> FALSE]

Bailed(st) == [st |-> st, out |-> <<>>, err |-> TRUE]

unhandled(st, m) == warn(st, "unhandled msg", <<>>)

\* a dispatcher that answers a PING twice
HandlePing_Twice(st, m, rx_alive) ==
  IF rx_alive
  THEN Handled(st, <<from_command("Pong", <<m.args[1]>>), from_command("Pong", <<m.args[1]>>)>>)
  ELSE Bailed(st)

HandlePing(st, m, rx_alive) ==
  IF rx_alive THEN Handled(st, <<from_command("Pong", <<m.args[1]>>)>>)
  ELSE Bailed(st)

\* a dispatcher that accepts RPL_WELCOME in any phase
HandleWelcome_AnyPhase(st, m) ==
  IF Len(m.args) < 2 THEN Bailed(st)
  ELSE IF m.args[1].list \/ m.args[2].list THEN Bailed(st)
  ELSE LET nick == m.args[1].s
           text == m.args[2].s
           warned == IF st.nick # nick
                     THEN warn_in(st, Status, "requested nick differs", nick)
                     ELSE st
       IN Handled(add_line(ConnectedState_new(warned, nick), Status,
                           Line("line", "", text)), <<>>)

HandleWelcome(st, m) ==
  IF st.phase # "Registration"
  THEN Handled(warn_in(st, Status, "RPL_WELCOME when already registered", <<>>), <<>>)
  ELSE IF Len(m.args) < 2 THEN Bailed(st)
  ELSE IF m.args[1].list \/ m.args[2].list THEN Bailed(st)
  ELSE LET nick == m.args[1].s
           text == m.args[2].s
           warned == IF st.nick # nick
                     THEN warn_in(st, Status, "requested nick differs", nick)
                     ELSE st
       IN Handled(add_line(ConnectedState_new(warned, nick), Status,
                           Line("line", "", text)), <<>>)

HandleError(st, m) == Handled(ui_push(st, "error", "", m.args[1].s), <<>>)

HandleQuit(st, m) ==
  IF m.source.kind = "None" THEN Bailed(st)
  ELSE Handled(add_line(st, Status,
                 Line("line", "quit",
                      get_name(m.source) \o <<SP>> \o
                      (IF m.args = <<>> THEN <<>> ELSE m.args[1].s))), <<>>)

\* the JOIN arm: one join line per valid channel, in the window of the channel
RECURSIVE JoinLines(_, _, _)
JoinLines(st, join_nick, pairs) ==
  IF pairs = <<>> THEN st
  ELSE LET channel == Head(pairs).l[1]
       IN JoinLines(IF ChannelNameValid(channel)
                    THEN add_line(st, TargetChannel(channel),
                                  Line("line", "joined", join_nick \o <<SP>> \o channel))
                    ELSE st,
                    join_nick, Tail(pairs))

HandleJoin(st, m) ==
  IF st.phase # "Connected" THEN Bailed(st)
  ELSE IF m.source.kind = "None"
  THEN Handled(warn_in(st, Status, "JOIN msg without a source", <<>>), <<>>)
  ELSE Handled(JoinLines(st, get_name(m.source), m.args), <<>>)

CTCP_DELIM == 1

is_valid_ctcp_command(c) ==
  (c >= 2 /\ c <= 9) \/ (c >= 11 /\ c <= 12) \/ (c >= 14 /\ c <= 31) \/ (c >= 33 /\ c <= 255)

is_valid_ctcp_params(c) ==
  (c >= 2 /\ c <= 9) \/ (c >= 11 /\ c <= 12) \/ (c >= 14 /\ c <= 255)

\* the longest prefix of s of valid command bytes
RECURSIVE CtcpCommandBytes(_)
CtcpCommandBytes(s) ==
  IF s # <<>> /\ is_valid_ctcp_command(s[1]) THEN <<s[1]>> \o CtcpCommandBytes(Tail(s))
  ELSE <<>>

\* the longest prefix of s of valid params bytes
RECURSIVE CtcpParamsBytes(_)
CtcpParamsBytes(s) ==
  IF s # <<>> /\ is_valid_ctcp_params(s[1]) THEN <<s[1]>> \o CtcpParamsBytes(Tail(s))
  ELSE <<>>

CTCP_ACTION == <<65, 67, 84, 73, 79, 78>>
CTCP_CLIENTINFO == <<67, 76, 73, 69, 78, 84, 73, 78, 70, 79>>

\* parse_ctcp (handlers/ctcp.rs); the params are ASCII here, so from_utf8
\* succeeds
parse_ctcp(msg) ==
  LET cmd == CtcpCommandBytes(Tail(msg))
      bytes == Drop(Tail(msg), Len(cmd))
      params == IF bytes = <<>> \/ bytes[1] = CTCP_DELIM THEN <<>>
                ELSE CtcpParamsBytes(Tail(bytes))
  IN IF bytes # <<>> /\ bytes[1] \notin {CTCP_DELIM, SP} THEN [kind |-> "Panic", params |-> <<>>]
     ELSE IF cmd = CTCP_ACTION THEN [kind |-> "Action", params |-> params]
     ELSE IF cmd = CTCP_CLIENTINFO THEN [kind |-> "Clientinfo", params |-> <<>>]
     ELSE [kind |-> "None", params |-> <<>>]

\* a CLIENTINFO reply sent as a PRIVMSG
ClientinfoReply_Privmsg(nick) ==
  from_command("Privmsg",
    <<PList(<<nick>>),
      PString(<<CTCP_DELIM>> \o CTCP_CLIENTINFO \o <<SP>> \o CTCP_ACTION \o <<SP>>
              \o CTCP_CLIENTINFO \o <<CTCP_DELIM>>)>>)

\* CtcpReply::CLIENTINFO.to_msg(nick)
ClientinfoReply(nick) ==
  from_command("Notice",
    <<PList(<<nick>>),
      PString(<<CTCP_DELIM>> \o CTCP_CLIENTINFO \o <<SP>> \o CTCP_ACTION \o <<SP>>
              \o CTCP_CLIENTINFO \o <<CTCP_DELIM>>)>>)

\* Target::new(s) of a valid target text
TargetOf(t) == IF t[1] \in CHANNEL_TYPES THEN TargetChannel(t) ELSE TargetNickname(t)

\* handle_message (handlers/msg.rs): the new session state and the messages
\* sent; kind is "Privmsg" or "Notice"
handle_message(st, kind, source, t, msg) ==
  LET to_nick == TargetOf(t).kind = "Nickname"
      target == IF to_nick THEN TargetNickname(source.name) ELSE TargetOf(t)
      ctcp == parse_ctcp(msg)
      who == IF source.kind = "None" THEN <<>> ELSE get_name(source) \o <<SP>>
  IN IF to_nick /\ source.kind # "Nick" THEN [st |-> st, out |-> <<>>]
     ELSE IF msg # <<>> /\ msg[1] = CTCP_DELIM THEN
       IF ctcp.kind = "Action"
       THEN [st |-> add_line(st, target, Line("line", "action", who \o push_unstyled(ctcp.params))),
             out |-> <<>>]
       ELSE IF ctcp.kind = "Clientinfo" /\ source.kind = "Nick"
       THEN [st |-> st, out |-> <<ClientinfoReply(source.name)>>]
       ELSE [st |-> st, out |-> <<>>]
     ELSE [st |-> add_line(st, target,
                           Line("line", IF kind = "Notice" THEN "notice" ELSE "msg",
                                who \o msg)),
           out |-> <<>>]

\* the Privmsg and Notice arms: handle_message for each target in turn
RECURSIVE HandleMessages(_, _, _, _, _, _)
HandleMessages(st, out, kind, source, targets, msg) ==
  IF targets = <<>> THEN Handled(st, out)
  ELSE LET r == handle_message(st, kind, source, Head(targets), msg)
       IN HandleMessages(r.st, out \o r.out, kind, source, Tail(targets), msg)

RPL_NAMREPLY == 353
RPL_ENDOFNAMES == 366

\* the texts of the params that are strings
RECURSIVE StringsOf(_)
StringsOf(ps) ==
  IF ps = <<>> THEN <<>>
  ELSE (IF Head(ps).list THEN <<>> ELSE <<Head(ps).s>>) \o StringsOf(Tail(ps))

HandleNamReply(st, m) ==
  IF st.phase # "Connected" THEN Bailed(st)
  ELSE IF Len(m.args) < 3
  THEN Handled(warn_in(st, Status, "RPL_NAMREPLY missing params", <<>>), <<>>)
  ELSE IF m.args[3].list
  THEN Handled(warn_in(st, Status, "RPL_NAMREPLY malformed params", <<>>), <<>>)
  ELSE LET channel == m.args[3].s
           names == IF channel \in DOMAIN st.active_names THEN st.active_names[channel]
                    ELSE <<>>
       IN Handled([st EXCEPT !.active_names =
                     MapPut(@, channel, names \o StringsOf(SubSeq(m.args, 4, Len(m.args))))],
                  <<>>)

HandleEndOfNames(st, m) ==
  IF st.phase # "Connected" THEN Bailed(st)
  ELSE IF Len(m.args) < 2
  THEN Handled(warn_in(st, Status, "RPL_ENDOFNAMES missing args", <<>>), <<>>)
  ELSE IF m.args[2].list
  THEN Handled(warn_in(st, Status, "RPL_ENDOFNAMES malformed args", <<>>), <<>>)
  ELSE LET name == m.args[2].s
           removed == [st EXCEPT !.active_names = MapRemove(@, name)]
       IN IF ~ChannelNameValid(name)
          THEN Handled(warn_in(st, Status, "RPL_ENDOFNAMES invalid channel", name), <<>>)
          ELSE IF name \notin DOMAIN st.active_names
          THEN Handled(warn_in(st, Status, "did not expect a RPL_ENDOFNAMES", name), <<>>)
          ELSE IF name \notin DOMAIN st.channels
          THEN Handled(warn_in(removed, Status,
                               "cannot update names for channel not joined", name), <<>>)
          ELSE LET names == st.active_names[name]
                   extended == [removed EXCEPT !.channels[name].users = @ \cup {names[i] : i \in DOMAIN names}]
               IN Handled(add_line(add_line(extended, TargetChannel(name),
                                            Line("line", "NAMES for", name)),
                                   TargetChannel(name),
                                   Line("line", "names", JoinWith(names, SP))),
                          <<>>)

handle(st, m, rx_alive) ==
  IF m.cmd = "Ping" THEN HandlePing(st, m, rx_alive)
  ELSE IF m.cmd = "Quit" THEN HandleQuit(st, m)
  ELSE IF m.cmd = "Join" THEN HandleJoin(st, m)
  ELSE IF m.cmd \in {"Privmsg", "Notice"}
  THEN HandleMessages(st, <<>>, m.cmd, m.source, m.args[1].l, m.args[2].s)
  ELSE IF m.cmd = "Numeric" /\ m.num = RPL_NAMREPLY THEN HandleNamReply(st, m)
  ELSE IF m.cmd = "Numeric" /\ m.num = RPL_ENDOFNAMES THEN HandleEndOfNames(st, m)
  ELSE IF m.cmd = "Numeric" /\ m.num = RPL_WELCOME THEN HandleWelcome(st, m)
  ELSE IF m.cmd = "Error" THEN HandleError(st, m)
  ELSE IF m.cmd = "Unknown" THEN Handled(warn_in(st, Status, "unhandled unknown msg", <<>>), <<>>)
  ELSE IF m.cmd = "Pong" THEN Handled(warn(st, "client received PONG", <<>>), <<>>)
  ELSE IF m.cmd = "User" THEN Handled(warn(st, "client received USER", <<>>), <<>>)
  ELSE IF m.cmd = "Topic" THEN Handled(warn(st, "client received TOPIC", <<>>), <<>>)
  ELSE Handled(unhandled(st, m), <<>>)

(***************************************************************************)
(* User commands: Command::parse and Command::handle (command.rs), and     *)
(* handle_input (client.rs).                                               *)
(***************************************************************************)
\* the ASCII characters char::is_whitespace accepts
Whitespace == {SP, 9, LF, 11, 12, CR}

RECURSIVE TrimEnd(_)
TrimEnd(s) ==
  IF s # <<>> /\ s[Len(s)] \in Whitespace THEN TrimEnd(Take(s, Len(s) - 1)) ELSE s

RECURSIVE TrimFront(_)
TrimFront(s) == IF s # <<>> /\ s[1] \in Whitespace THEN TrimFront(Tail(s)) ELSE s

\* str::trim
Trim(s) == TrimEnd(TrimFront(s))

\* str::to_lowercase on ASCII text
to_lowercase(s) == [i \in 1..Len(s) |-> IF s[i] >= 65 /\ s[i] <= 90 THEN s[i] + 32 ELSE s[i]]

RECURSIVE NonEmpty(_)
NonEmpty(ss) ==
  IF ss = <<>> THEN <<>>
  ELSE IF Head(ss) = <<>> THEN NonEmpty(Tail(ss))
  ELSE <<Head(ss)>> \o NonEmpty(Tail(ss))

CmdOk(cmd, arg) == [kind |-> "Ok", cmd |-> cmd, arg |-> arg]

CmdErr(e) == [kind |-> "Err", cmd |-> e, arg |-> <<>>]

CommandParse(s) ==
  LET parts == split_once(s, SP)
      cmd == to_lowercase(parts.before)
      args_str == parts.after
      args == NonEmpty(Split(args_str, SP))
  IN IF cmd = <<106, 111, 105, 110>> THEN
       IF Len(args) # 1 THEN CmdErr("IncorrectArgCount")
       ELSE CmdOk("Join", Split(args[1], COMMA)[1])
     ELSE IF cmd = <<114, 97, 119>> THEN
       IF Len(args) = 0 THEN CmdErr("IncorrectArgCount") ELSE CmdOk("Raw", args_str)
     ELSE IF cmd = <<109, 115, 103>> THEN
       IF Len(args) # 1 THEN CmdErr("IncorrectArgCount")
       ELSE IF ~NicknameValid(args[1]) THEN CmdErr("InvalidArg")
       ELSE CmdOk("Msg", args[1])
     ELSE IF cmd = <<113, 117, 105, 116>> THEN CmdOk("Quit", <<>>)
     ELSE CmdErr("UnknownCommand")

\* the result of handling an input: the new session state, the messages sent
\* on the outbound queue, the InputErr ("" for Ok(())) and whether the
\* handler goes on to store QUIT_REQUESTED
InputDone(st, out, err, stores_quit) ==
  [st |-> st, out |-> out, err |-> err, stores_quit |-> stores_quit]

\* a command handler that does not look at the phase or at the channel name
CommandHandle_Unchecked(st, c, rx_alive) ==
  IF c.cmd = "Join" THEN
    IF ~rx_alive THEN InputDone(st, <<>>, "Other", FALSE)
    ELSE InputDone(ensure_target_exists(st, TargetChannel(c.arg)),
                   <<from_command("Join", <<PList(<<c.arg>>)>>)>>, "", FALSE)
  ELSE IF c.cmd = "Raw" THEN
    IF ~rx_alive THEN InputDone(st, <<>>, "Other", FALSE)
    ELSE InputDone(st, <<from_command("Raw", <<PString(c.arg)>>)>>, "", FALSE)
  ELSE IF c.cmd = "Msg" THEN
    IF st.phase # "Connected" THEN InputDone(st, <<>>, "Other", FALSE)
    ELSE InputDone(ensure_target_exists(st, TargetNickname(c.arg)), <<>>, "", FALSE)
  ELSE \* Quit
    IF ~rx_alive THEN InputDone(st, <<>>, "Other", FALSE)
    ELSE InputDone(st, <<from_command("Quit", <<>>)>>, "", TRUE)

CommandHandle(st, c, rx_alive) ==
  IF c.cmd = "Join" THEN
    IF st.phase # "Connected" \/ ~ChannelNameValid(c.arg) \/ ~rx_alive
    THEN InputDone(st, <<>>, "Other", FALSE)
    ELSE InputDone(ensure_target_exists(st, TargetChannel(c.arg)),
                   <<from_command("Join", <<PList(<<c.arg>>)>>)>>, "", FALSE)
  ELSE IF c.cmd = "Raw" THEN
    IF st.phase # "Connected" \/ ~rx_alive THEN InputDone(st, <<>>, "Other", FALSE)
    ELSE InputDone(st, <<from_command("Raw", <<PString(c.arg)>>)>>, "", FALSE)
  ELSE IF c.cmd = "Msg" THEN
    IF st.phase # "Connected" THEN InputDone(st, <<>>, "Other", FALSE)
    ELSE InputDone(ensure_target_exists(st, TargetNickname(c.arg)), <<>>, "", FALSE)
  ELSE \* Quit
    IF ~rx_alive THEN InputDone(st, <<>>, "Other", FALSE)
    ELSE InputDone(st, <<from_command("Quit", <<>>)>>, "", TRUE)

\* the only element of the domain of a one-entry map
TheKey(f) == CHOOSE k \in DOMAIN f : TRUE

\* an input handler that also runs commands during registration
handle_input_AnyPhase(st0, input, rx_alive) ==
  LET st == ui_push(st0, "debug", "input", input)
      parsed == CommandParse(Drop(input, 1))
  IN IF input # <<>> /\ input[1] = SLASH THEN
       IF parsed.kind = "Err"
       THEN InputDone(st, <<>>, "Other(failed to parse command)", FALSE)
       ELSE CommandHandle(st, parsed, rx_alive)
     ELSE InputDone(st, <<>>, "", FALSE)

handle_input(st0, input, rx_alive) ==
  LET st == ui_push(st0, "debug", "input", input)
      parsed == CommandParse(Drop(input, 1))
  IN IF st.phase = "Registration"
     THEN InputDone(ui_push(st, "warn", "input during registration NYI", <<>>), <<>>, "", FALSE)
     ELSE IF input # <<>> /\ input[1] = SLASH THEN
       IF parsed.kind = "Err"
       THEN InputDone(st, <<>>, "Other(failed to parse command)", FALSE)
       ELSE CommandHandle(st, parsed, rx_alive)
     ELSE IF Cardinality(DOMAIN st.channels) = 0
     THEN InputDone(ui_push(st, "warn", "cannot send a message to 0 channels", <<>>), <<>>, "", FALSE)
     ELSE IF Cardinality(DOMAIN st.channels) > 1
     THEN InputDone(ui_push(st, "warn", "multiple channels NYI", <<>>), <<>>, "", FALSE)
     ELSE IF ~rx_alive THEN InputDone(st, <<>>, "Other", FALSE)
     ELSE InputDone(ui_push(st, "line", "msg", st.nick \o <<SP>> \o input),
                    <<from_command("Privmsg", <<PList(<<TheKey(st.channels)>>), PString(input)>>)>>,
                    "", FALSE)

(***************************************************************************)
(* The threads of start (client.rs): the reader/writer thread, the input   *)
(* thread and the main loop, with the two mpsc channels between them, the  *)
(* mutex around the session state and the QUIT_REQUESTED flag.             *)
(***************************************************************************)
\* the number of completed input lines the user types
MaxInputs == 1
\* the size of a partial read from the stream
ReadChunk == 5

L_PING_A == <<80, 73, 78, 71, 32, 97>>
L_PING_B == <<80, 73, 78, 71, 32, 98>>
L_WELCOME_A == <<48, 48, 49, 32, 97, 32, 119>>
L_WELCOME_B == <<48, 48, 49, 32, 98, 32, 119>>
L_ERROR == <<69, 82, 82, 79, 82, 32, 120>>
\* a line with a source and no command: IrcParseErr::MissingCommand
L_BAD == <<58, 115>>

\* the byte stream of a sequence of lines
RECURSIVE Stream(_)
Stream(lines) == IF lines = <<>> THEN <<>> ELSE Head(lines) \o CRLF \o Stream(Tail(lines))

\* what the server sends in a session
Scripts ==
  { Stream(<<L_PING_A, L_WELCOME_A, L_PING_B, L_WELCOME_B>>),
    Stream(<<L_PING_A, L_BAD, <<>>, L_PING_B>>),
    Stream(<<L_WELCOME_A, L_ERROR>>) }

\* what the user types as a complete line
InputLines ==
  {<<47, 113, 117, 105, 116>>, <<47, 106, 111, 105, 110, 32, 35, 99>>, <<104, 105>>,
   <<47, 120>>}

\* the nick the session was started with
RequestedNick == <<97>>

VARIABLES
  script,          \* everything the server sends in this session
  wire,            \* the bytes of script the stream has not delivered yet
  sent,            \* the bytes written to the stream
  buffer,          \* ServerIo.buffer[..recv_idx]
  message_buffer,  \* ServerIo.message_buffer
  debug_build,     \* debug assertions are compiled in
  write_queue,     \* the outbound channel (write_sender -> write_receiver)
  msg_queue,       \* the inbound channel (msg_sender -> msg_receiver)
  quit,            \* QUIT_REQUESTED
  mutex,           \* the holder of the state mutex, "free" if none
  state,           \* ClientState
  ui_enabled,      \* the terminal is in raw mode on the alternate screen
  pc_rw,           \* reader/writer thread: top, try, write, recv, forward, err, done, panicked
  wbuf,            \* the bytes write_all_blocking has still to write
  batch,           \* the messages of the last recv not yet forwarded
  rw_err,          \* the error the reader/writer closure returned
  pc_in,           \* input thread: top, poll, quit_store, report, done
  inputs_left,     \* the completed lines the user may still type
  in_err,          \* the error the input closure returned
  pc_main,         \* main thread: init, top, dispatch, exit, done
  init_todo,       \* the registration messages init has still to send
  main_msg,        \* the message taken from msg_receiver
  exit_reason,     \* what start returned
  enqueued,        \* history: the messages sent on the outbound channel
  produced,        \* history: the messages recv returned
  handled,         \* history: the messages given to the dispatcher
  codec_msg,       \* codec: the message given to IrcMessage::to_irc_string
  codec_ser,       \* codec: what to_irc_string returned
  codec_parsed,    \* codec: what IrcMessage::parse returned for the serialized line
  input_buffer,    \* TerminalUi's InputBuffer: buffer and cursor (a byte index)
  layout_case,     \* layout: the Layout and the terminal size given to Layout::calc
  layout_sizes,    \* layout: what calc returned, the rectangles or a panic
  call,            \* a function of the program applied on its own and its arguments
  result,          \* what that function returned
  issued           \* history: the user commands Command::handle completed

net_vars == <<script, wire, sent, buffer, message_buffer, debug_build>>
rw_vars == <<pc_rw, wbuf, batch, rw_err>>
in_vars == <<pc_in, inputs_left, in_err>>
main_vars == <<pc_main, init_todo, main_msg, exit_reason>>
hist_vars == <<enqueued, produced, handled>>
codec_vars == <<codec_msg, codec_ser, codec_parsed>>
ui_vars == <<input_buffer, layout_case, layout_sizes>>
fn_vars == <<call, result>>
component_vars == <<codec_vars, ui_vars, fn_vars, add_line_creates, issued>>
vars == <<net_vars, write_queue, msg_queue, quit, mutex, state, ui_enabled,
          rw_vars, in_vars, main_vars, hist_vars, component_vars>>

\* ClientState::new in Registration, with only the Status window
InitState ==
  [phase |-> "Registration", nick |-> RequestedNick, channels |-> << >>, users |-> << >>,
   active_names |-> << >>, all_targets |-> <<Status>>, selected_target_idx |-> 0,
   status_messages |-> <<>>, ui_history |-> <<>>, scrollback |-> 0]

\* the registration messages of init: NICK then USER
InitMessages ==
  <<from_command("Nick", <<PString(RequestedNick)>>),
    from_command("User", <<PString(RequestedNick), PString(RequestedNick)>>)>>

\* nothing serialized or parsed yet
NoSer == [kind |-> "None", err |-> "", bytes |-> <<>>]

NoParse == [kind |-> "None", err |-> "", msg |-> NoMsg]

\* InputBuffer::default(); panicked: a String operation of the buffer panicked
InputBuffer_new == [buffer |-> <<>>, cursor |-> 0, panicked |-> FALSE]

\* no layout given to calc yet, nothing returned yet
NoLayout == [direction |-> "Vertical", sections |-> <<>>, term_size |-> <<0, 0>>]

NoRects == [kind |-> "None", rects |-> <<>>]

\* the codec, the input buffer and the layout before anything used them
\* no function applied on its own, nothing returned
NoCall == [fn |-> "none"]

NoResult == [kind |-> "None"]

FnIdle == call = NoCall /\ result = NoResult

\* every component but call and result at rest
ComponentsIdle ==
  /\ codec_msg = NoMsg /\ codec_ser = NoSer /\ codec_parsed = NoParse
  /\ input_buffer = InputBuffer_new
  /\ layout_case = NoLayout /\ layout_sizes = NoRects
  /\ add_line_creates = FALSE /\ issued = <<>>

ComponentsInit == ComponentsIdle /\ FnIdle

ThreadsInit ==
  /\ ComponentsInit
  /\ sent = <<>> /\ buffer = <<>> /\ message_buffer = <<>>
  /\ write_queue = <<>> /\ msg_queue = <<>>
  /\ quit = FALSE /\ mutex = "free"
  /\ state = InitState /\ ui_enabled = TRUE
  /\ pc_rw = "top" /\ wbuf = <<>> /\ batch = <<>> /\ rw_err = ""
  /\ pc_in = "top" /\ inputs_left = MaxInputs /\ in_err = ""
  /\ pc_main = "init" /\ init_todo = InitMessages /\ main_msg = NoMsg /\ exit_reason = ""
  /\ enqueued = <<>> /\ produced = <<>> /\ handled = <<>>

Init ==
  /\ script \in Scripts
  /\ wire = script
  /\ debug_build = FALSE
  /\ ThreadsInit

\* a channel that hands out the newest message first
try_recv_newest(queue) ==
  [msg |-> queue[Len(queue)], rest |-> Take(queue, Len(queue) - 1)]

\* Receiver::try_recv on a non-empty channel: the oldest message
try_recv(queue) == [msg |-> Head(queue), rest |-> Tail(queue)]

\* a channel that puts a new message in front of the waiting ones
channel_send_front(queue, msgs) == msgs \o queue

\* Sender::send on a channel whose receiver is alive
channel_send(queue, msgs) == queue \o msgs

\* write_receiver lives in the reader/writer thread's closure
write_receiver_alive == pc_rw \notin {"done", "panicked"}

\* msg_receiver lives in start's frame
msg_receiver_alive == pc_main # "done"

\* write_sender lives in start's frame, its clone in the input thread's closure
write_senders_alive == pc_main # "done" \/ pc_in # "done"

(***************************************************************************)
(* The reader/writer thread (client.rs 106-151).                           *)
(***************************************************************************)
\* the top of the loop: the QUIT_REQUESTED check
RwTop ==
  /\ pc_rw = "top"
  /\ pc_rw' = IF quit THEN "done" ELSE "try"
  /\ UNCHANGED <<net_vars, component_vars, write_queue, msg_queue, quit, mutex, state, ui_enabled,
                 wbuf, batch, rw_err, in_vars, main_vars, hist_vars>>

\* write_receiver.try_recv() and the serialization at the start of
\* ServerIo::write
RwTryRecv ==
  /\ pc_rw = "try"
  /\ IF write_queue # <<>>
     THEN LET got == try_recv(write_queue)
              ser == ToIrcString(got.msg)
          IN /\ write_queue' = got.rest
             /\ wbuf' = ser.bytes
             /\ rw_err' = IF ser.kind = "Err" THEN "MessageToStrErr" ELSE rw_err
             /\ pc_rw' = IF ser.kind = "Panic" THEN "panicked"
                         ELSE IF ser.kind = "Err" THEN "err"
                         ELSE IF ser.bytes = <<>> THEN "recv" ELSE "write"
     ELSE /\ UNCHANGED <<write_queue, wbuf>>
          /\ rw_err' = IF write_senders_alive THEN rw_err ELSE "Disconnected"
          /\ pc_rw' = IF write_senders_alive THEN "recv" ELSE "err"
  /\ UNCHANGED <<net_vars, component_vars, msg_queue, quit, mutex, state, ui_enabled,
                 batch, in_vars, main_vars, hist_vars>>

\* the sizes of a successful partial write of a buffer of len bytes
WriteSizes(len) == {len, (len + 1) \div 2}

\* a write loop that offers the whole buffer again after a partial write
write_all_blocking_Restart(buf, r) ==
  IF r.kind = "Ok" THEN
    IF r.n = 0 THEN [kind |-> "Err", err |-> "WriteZero", buf |-> buf, written |-> <<>>]
    ELSE [kind |-> IF r.n = Len(buf) THEN "Done" ELSE "Again", err |-> "",
          buf |-> buf, written |-> Take(buf, r.n)]
  ELSE IF r.kind \in {"WouldBlock", "Interrupted"}
  THEN [kind |-> "Again", err |-> "", buf |-> buf, written |-> <<>>]
  ELSE [kind |-> "Err", err |-> r.kind, buf |-> buf, written |-> <<>>]

\* one turn of the loop of write_all_blocking (ext.rs 25-46) on the result
\* of the stream's write: Ok(n), WouldBlock or Interrupted, another error
write_all_blocking(buf, r) ==
  IF r.kind = "Ok" THEN
    IF r.n = 0 THEN [kind |-> "Err", err |-> "WriteZero", buf |-> buf, written |-> <<>>]
    ELSE [kind |-> IF r.n = Len(buf) THEN "Done" ELSE "Again", err |-> "",
          buf |-> Drop(buf, r.n), written |-> Take(buf, r.n)]
  ELSE IF r.kind \in {"WouldBlock", "Interrupted"}
  THEN [kind |-> "Again", err |-> "", buf |-> buf, written |-> <<>>]
  ELSE [kind |-> "Err", err |-> r.kind, buf |-> buf, written |-> <<>>]

WriteResults(len) ==
  [kind : {"Ok"}, n : WriteSizes(len) \cup {0}]
    \cup [kind : {"WouldBlock", "Interrupted", "Io"}, n : {0}]

RwWrite ==
  /\ pc_rw = "write"
  /\ \E r \in WriteResults(Len(wbuf)) :
       LET w == write_all_blocking(wbuf, r)
       IN /\ sent' = sent \o w.written
          /\ wbuf' = w.buf
          /\ rw_err' = IF w.kind = "Err" THEN "Io" ELSE rw_err
          /\ pc_rw' = IF w.kind = "Err" THEN "err"
                      ELSE IF w.kind = "Done" THEN "recv" ELSE "write"
  /\ UNCHANGED <<script, component_vars, wire, buffer, message_buffer, debug_build, write_queue,
                 msg_queue, quit, mutex, state, ui_enabled, batch, in_vars,
                 main_vars, hist_vars>>

\* the sizes of a read while the stream has len bytes to deliver
ReadSizes(len) == {n \in {ReadChunk, len} : n >= 1 /\ n <= len}

\* what the stream can answer to the final read of a recv call
FinalReads(w) ==
  {ReadResult("Ok", Take(w, n)) : n \in ReadSizes(Len(w))}
    \cup {ReadResult("WouldBlock", <<>>), ReadResult("Io", <<>>)}
    \cup (IF w = <<>> THEN {ReadResult("Ok", <<>>)} ELSE {})

\* the numbers of Interrupted results before the final one
InterruptRuns == {0, MAX_RETRIES + 1, MAX_RETRIES + 2}

\* connection.recv()
RwRecv ==
  /\ pc_rw = "recv"
  /\ \E k \in InterruptRuns : \E final \in FinalReads(wire) :
     \E rd \in {ReadLoop(ReadResults(k, final), 0)} :
     \E r \in {Recv(buffer, message_buffer, ReadResults(k, final), debug_build)} :
          /\ wire' = Drop(wire, Len(rd.data))
          /\ buffer' = r.buffer
          /\ message_buffer' = r.message_buffer
          /\ batch' = r.msgs
          /\ produced' = produced \o r.msgs
          /\ rw_err' = IF r.kind \in {"Ok", "Panic"} THEN rw_err ELSE r.kind
          /\ pc_rw' = IF r.kind = "Panic" THEN "panicked"
                      ELSE IF r.kind # "Ok" THEN "err"
                      ELSE IF r.msgs = <<>> THEN "top" ELSE "forward"
  /\ UNCHANGED <<script, component_vars, sent, debug_build, write_queue, msg_queue, quit, mutex,
                 state, ui_enabled, wbuf, in_vars, main_vars, enqueued, handled>>

\* msg_sender.send(msg) for the next message of the batch
RwForward ==
  /\ pc_rw = "forward"
  /\ IF msg_receiver_alive
     THEN /\ msg_queue' = channel_send(msg_queue, <<Head(batch)>>)
          /\ batch' = Tail(batch)
          /\ pc_rw' = IF Tail(batch) = <<>> THEN "top" ELSE "forward"
          /\ UNCHANGED rw_err
     ELSE /\ rw_err' = "SendError"
          /\ pc_rw' = "err"
          /\ UNCHANGED <<msg_queue, batch>>
  /\ UNCHANGED <<net_vars, component_vars, write_queue, quit, mutex, state, ui_enabled, wbuf,
                 in_vars, main_vars, hist_vars>>

\* an error report that writes to the UI without taking the state mutex
RwErr_NoLock ==
  /\ pc_rw = "err"
  /\ state' = ui_push(state, "error", rw_err, <<>>)
  /\ pc_rw' = "done"
  /\ UNCHANGED <<net_vars, component_vars, write_queue, msg_queue, quit, mutex, ui_enabled,
                 wbuf, batch, rw_err, in_vars, main_vars, hist_vars>>

\* Err(e) => state.lock().unwrap().ui.error(e.to_string()).unwrap(); return
RwErr ==
  /\ pc_rw = "err"
  /\ mutex = "free"
  /\ state' = ui_push(state, "error", rw_err, <<>>)
  /\ pc_rw' = "done"
  /\ UNCHANGED <<net_vars, component_vars, write_queue, msg_queue, quit, mutex, ui_enabled,
                 wbuf, batch, rw_err, in_vars, main_vars, hist_vars>>

(***************************************************************************)
(* The input thread (client.rs 154-203).                                   *)
(***************************************************************************)
\* an input loop that never looks at QUIT_REQUESTED
InTop_NoQuitCheck ==
  /\ pc_in = "top"
  /\ pc_in' = "poll"
  /\ UNCHANGED <<net_vars, component_vars, write_queue, msg_queue, quit, mutex, state, ui_enabled,
                 rw_vars, inputs_left, in_err, main_vars, hist_vars>>

InTop ==
  /\ pc_in = "top"
  /\ pc_in' = IF quit THEN "done" ELSE "poll"
  /\ UNCHANGED <<net_vars, component_vars, write_queue, msg_queue, quit, mutex, state, ui_enabled,
                 rw_vars, inputs_left, in_err, main_vars, hist_vars>>

\* state.ui.input() returned Incomplete: sleep and loop
InIncomplete ==
  /\ pc_in = "poll" /\ mutex = "free"
  /\ pc_in' = "top"
  /\ UNCHANGED <<net_vars, component_vars, write_queue, msg_queue, quit, mutex, state, ui_enabled,
                 rw_vars, inputs_left, in_err, main_vars, hist_vars>>

\* state.ui.input() returned Complete(input): handle_input under the lock.
\* /quit keeps the lock until QUIT_REQUESTED is stored.
InComplete ==
  /\ pc_in = "poll" /\ mutex = "free"
  /\ inputs_left > 0
  /\ \E input \in InputLines :
       LET r == handle_input(state, Trim(input), write_receiver_alive)
       IN /\ state' = r.st
          /\ write_queue' = channel_send(write_queue, r.out)
          /\ enqueued' = enqueued \o r.out
          /\ mutex' = IF r.stores_quit THEN "input" ELSE "free"
          /\ pc_in' = IF r.stores_quit THEN "quit_store"
                      ELSE IF r.err = "" THEN "top" ELSE "report"
          /\ in_err' = IF r.err = "" THEN in_err ELSE r.err
  /\ inputs_left' = inputs_left - 1
  /\ UNCHANGED <<net_vars, component_vars, msg_queue, quit, ui_enabled, rw_vars, main_vars,
                 produced, handled>>

\* Command::Quit after the send: QUIT_REQUESTED.store(true), then the lock
\* is released
InQuitStore ==
  /\ pc_in = "quit_store"
  /\ quit' = TRUE
  /\ mutex' = "free"
  /\ pc_in' = "top"
  /\ UNCHANGED <<net_vars, component_vars, write_queue, msg_queue, state, ui_enabled, rw_vars,
                 inputs_left, in_err, main_vars, hist_vars>>

\* state.ui.input() returned Quit: QUIT_REQUESTED.store(true); return
InQuit ==
  /\ pc_in = "poll" /\ mutex = "free"
  /\ quit' = TRUE
  /\ pc_in' = "done"
  /\ UNCHANGED <<net_vars, component_vars, write_queue, msg_queue, mutex, state, ui_enabled,
                 rw_vars, inputs_left, in_err, main_vars, hist_vars>>

\* state.ui.input() returned IoErr
InIoErr ==
  /\ pc_in = "poll" /\ mutex = "free"
  /\ in_err' = "Io"
  /\ pc_in' = "report"
  /\ UNCHANGED <<net_vars, component_vars, write_queue, msg_queue, quit, mutex, state,
                 ui_enabled, rw_vars, inputs_left, main_vars, hist_vars>>

\* Err(InputErr::Io | InputErr::Other) => ui.error(..); return
InReport ==
  /\ pc_in = "report" /\ mutex = "free"
  /\ state' = ui_push(state, "error", in_err, <<>>)
  /\ pc_in' = "done"
  /\ UNCHANGED <<net_vars, component_vars, write_queue, msg_queue, quit, mutex, ui_enabled,
                 rw_vars, inputs_left, in_err, main_vars, hist_vars>>

(***************************************************************************)
(* The main thread (client.rs 205-231).                                    *)
(***************************************************************************)
\* init(&write_sender)?: the next registration message
MainInit ==
  /\ pc_main = "init"
  /\ IF write_receiver_alive
     THEN /\ write_queue' = channel_send(write_queue, <<Head(init_todo)>>)
          /\ enqueued' = Append(enqueued, Head(init_todo))
          /\ init_todo' = Tail(init_todo)
          /\ pc_main' = IF Tail(init_todo) = <<>> THEN "top" ELSE "init"
          /\ UNCHANGED exit_reason
     ELSE /\ pc_main' = "done"
          /\ exit_reason' = "Other"
          /\ UNCHANGED <<write_queue, enqueued, init_todo>>
  /\ UNCHANGED <<net_vars, component_vars, msg_queue, quit, mutex, state, ui_enabled, rw_vars,
                 in_vars, main_msg, produced, handled>>

\* the top of the loop: the QUIT_REQUESTED check, then msg_receiver.try_recv()
MainTop ==
  /\ pc_main = "top"
  /\ quit \/ msg_queue # <<>>
  /\ IF quit
     THEN /\ pc_main' = "exit"
          /\ UNCHANGED <<msg_queue, main_msg>>
     ELSE /\ main_msg' = try_recv(msg_queue).msg
          /\ msg_queue' = try_recv(msg_queue).rest
          /\ pc_main' = "dispatch"
  /\ UNCHANGED <<net_vars, component_vars, write_queue, quit, mutex, state, ui_enabled, rw_vars,
                 in_vars, init_todo, exit_reason, hist_vars>>

\* a disable that leaves the terminal as it is
disable_noop(enabled) == enabled

\* TerminalUi::disable
disable(enabled) == FALSE

\* a main loop that reports a dispatcher error and goes on
MainDispatch_NoQuit ==
  /\ pc_main = "dispatch" /\ mutex = "free"
  /\ LET r == handle(state, main_msg, write_receiver_alive)
     IN /\ state' = IF r.err
                    THEN ui_push(r.st, "line", "ERROR unable to handle message", <<>>)
                    ELSE r.st
        /\ write_queue' = channel_send(write_queue, r.out)
        /\ enqueued' = enqueued \o r.out
        /\ quit' = quit
  /\ handled' = Append(handled, main_msg)
  /\ pc_main' = "top"
  /\ UNCHANGED <<net_vars, component_vars, msg_queue, mutex, ui_enabled, rw_vars, in_vars,
                 init_todo, main_msg, exit_reason, produced>>

\* ui.writeln("exiting"); ui.disable(); return Err(ExitReason::Quit)
\* the dispatcher under the lock; on Err the main loop prints it and stores
\* QUIT_REQUESTED
MainDispatch ==
  /\ pc_main = "dispatch" /\ mutex = "free"
  /\ LET r == handle(state, main_msg, write_receiver_alive)
     IN /\ state' = IF r.err
                    THEN ui_push(r.st, "line", "ERROR unable to handle message", <<>>)
                    ELSE r.st
        /\ write_queue' = channel_send(write_queue, r.out)
        /\ enqueued' = enqueued \o r.out
        /\ quit' = (quit \/ r.err)
  /\ handled' = Append(handled, main_msg)
  /\ pc_main' = "top"
  /\ UNCHANGED <<net_vars, component_vars, msg_queue, mutex, ui_enabled, rw_vars, in_vars,
                 init_todo, main_msg, exit_reason, produced>>

\* ui.writeln("exiting"); ui.disable(); return Err(ExitReason::Quit)
MainExit ==
  /\ pc_main = "exit" /\ mutex = "free"
  /\ state' = ui_push(state, "line", "exiting", <<>>)
  /\ ui_enabled' = disable(ui_enabled)
  /\ exit_reason' = "Quit"
  /\ pc_main' = "done"
  /\ UNCHANGED <<net_vars, component_vars, write_queue, msg_queue, quit, mutex, rw_vars, in_vars,
                 init_todo, main_msg, hist_vars>>

RwStep == RwTop \/ RwTryRecv \/ RwForward \/ RwErr

\* the recv call that finds nothing to read: the WouldBlock case of RwRecv
RwRecvWouldBlock ==
  /\ pc_rw = "recv"
  /\ pc_rw' = "top"
  /\ UNCHANGED <<net_vars, component_vars, write_queue, msg_queue, quit, mutex, state, ui_enabled,
                 wbuf, batch, rw_err, in_vars, main_vars, hist_vars>>

InStep == InTop \/ InIncomplete \/ InQuitStore \/ InReport

MainStep == MainInit \/ MainTop \/ MainDispatch \/ MainExit

Next ==
  \/ RwTop \/ RwTryRecv \/ RwWrite \/ RwRecv \/ RwForward \/ RwErr
  \/ InTop \/ InIncomplete \/ InComplete \/ InQuitStore \/ InQuit \/ InIoErr \/ InReport
  \/ MainInit \/ MainTop \/ MainDispatch \/ MainExit

Spec == Init /\ [][Next]_vars

\* Every thread that can take a step of its own eventually takes one.  The
\* stream's write may answer WouldBlock forever and the user may never type:
\* nothing is assumed of RwWrite, InComplete, InQuit or InIoErr.  A recv call
\* always returns, and every return leaves pc_rw = "recv", so weak fairness
\* of its WouldBlock case is weak fairness of RwRecv.
FairSpec ==
  /\ Spec
  /\ WF_vars(RwStep)
  /\ WF_vars(RwRecvWouldBlock)
  /\ WF_vars(InStep)
  /\ WF_vars(MainStep)

(***************************************************************************)
(* Properties.                                                             *)
(***************************************************************************)
WelcomeDispatched ==
  pc_main = "dispatch" /\ main_msg.cmd = "Numeric" /\ main_msg.num = RPL_WELCOME

AlreadyRegisteredWarning == Line("warn", "RPL_WELCOME when already registered", <<>>)

\* C1: the phase changes only from Registration to Connected, only in the
\* dispatch of RPL_WELCOME (so at most once, and never back); a RPL_WELCOME
\* dispatched when Connected only appends a warning to Status and leaves the
\* phase, the nick, the channels, the conversations, the outbound queue and
\* the quit flag as they were.
C1_PhaseOnce ==
  [][ /\ (state'.phase # state.phase) =>
           /\ state.phase = "Registration" /\ state'.phase = "Connected"
           /\ WelcomeDispatched /\ pc_main' = "top"
      /\ (WelcomeDispatched /\ pc_main' = "top" /\ state.phase = "Connected") =>
           /\ state' = [state EXCEPT !.status_messages = Append(@, AlreadyRegisteredWarning)]
           /\ write_queue' = write_queue
           /\ quit' = quit
    ]_vars

\* a second RPL_WELCOME was handled after the session became Connected
C1_Witness ==
  /\ state.phase = "Connected" /\ state.nick = RequestedNick
  /\ \E i \in 1..Len(state.status_messages) :
       state.status_messages[i] = AlreadyRegisteredWarning

PingDispatched == pc_main = "dispatch" /\ main_msg.cmd = "Ping" /\ pc_main' = "top"

PongFor(m) == from_command("Pong", <<m.args[1]>>)

\* C2 as stated: every dispatched PING enqueues exactly one PONG with its
\* token and leaves the session state unchanged.
C2_Original ==
  [][ PingDispatched =>
        /\ write_queue' = Append(write_queue, PongFor(main_msg))
        /\ enqueued' = Append(enqueued, PongFor(main_msg))
        /\ state' = state
    ]_vars

\* C2: a dispatched PING, in either phase, enqueues exactly one PONG with
\* its token and leaves the session state unchanged while the reader/writer
\* thread holds the outbound queue's receiver; once that thread has
\* returned, nothing is enqueued, the dispatcher fails, the main loop prints
\* the failure and sets the quit flag, and phase, nick, channels and
\* conversations stay as they were.
C2_PongWhileWriterAlive ==
  [][ PingDispatched =>
        IF write_receiver_alive
        THEN /\ write_queue' = Append(write_queue, PongFor(main_msg))
             /\ enqueued' = Append(enqueued, PongFor(main_msg))
             /\ state' = state
             /\ quit' = quit
        ELSE /\ write_queue' = write_queue
             /\ enqueued' = enqueued
             /\ state' = ui_push(state, "line", "ERROR unable to handle message", <<>>)
             /\ quit'
    ]_vars

\* a PING was answered in Registration and another one when Connected
C2_Witness ==
  /\ state.phase = "Connected"
  /\ \E i, j \in 1..Len(enqueued) :
       /\ i < j
       /\ enqueued[i] = from_command("Pong", <<PString(<<97>>)>>)
       /\ enqueued[j] = from_command("Pong", <<PString(<<98>>)>>)
  /\ \E i \in 1..Len(handled) : handled[i].cmd = "Ping" /\ handled[i].args[1].s = <<98>>

\* the bytes of a sequence of outbound messages
Serialized(msgs) == Flatten([i \in 1..Len(msgs) |-> ToIrcString(msgs[i]).bytes])

\* the number of messages the reader/writer thread has taken from the
\* outbound queue
Taken == Len(enqueued) - Len(write_queue)

\* C3: the outbound queue holds the enqueued messages not yet taken, in
\* order, and the bytes written to the stream, followed by the bytes of the
\* write in progress, are the serializations of the taken messages in the
\* order they were enqueued: nothing twice, skipped or reordered.
C3_WriteOrder ==
  /\ Taken >= 0
  /\ write_queue = Drop(enqueued, Taken)
  /\ sent \o wbuf = Serialized(Take(enqueued, Taken))

\* the registration messages, a PONG of the main loop and a message of the
\* input thread have all been written
C3_Witness ==
  /\ Len(enqueued) >= 4 /\ write_queue = <<>> /\ wbuf = <<>>
  /\ sent = Serialized(enqueued)
  /\ \E i, j \in 1..Len(enqueued) :
       enqueued[i].cmd = "Pong" /\ enqueued[j].cmd \in {"Join", "Quit", "Privmsg"}

\* the message the dispatcher is working on
InFlight == IF pc_main = "dispatch" THEN <<main_msg>> ELSE <<>>

\* C4: the messages handled, the one being handled, the ones waiting on the
\* inbound queue and the ones of the last batch not yet forwarded are, in
\* this order, exactly the messages the framer produced: each is dispatched
\* once, in the framer's order, one at a time.
C4_DispatchOrder == handled \o InFlight \o msg_queue \o batch = produced

\* three messages went through the dispatcher
C4_Witness == Len(handled) >= 3 /\ handled = produced /\ handled[1] # handled[2]

\* C10: when start has returned ExitReason::Quit the UI is disabled.
C10_DisabledBeforeQuit == exit_reason = "Quit" => ~ui_enabled

\* the main loop returned Quit
C10_Witness == exit_reason = "Quit" /\ pc_main = "done"

(***************************************************************************)
(* The framer on its own: successive recv calls on a stream of valid       *)
(* UTF-8 lines, cut into reads at any byte.                                *)
(***************************************************************************)
\* "PING " followed by a two-byte character
F_PING_2 == <<80, 73, 78, 71, 32, 195, 169>>
\* "PING " followed by a three-byte character
F_PING_3 == <<80, 73, 78, 71, 32, 226, 130, 172>>
\* "PING " followed by a four-byte character
F_PING_4 == <<80, 73, 78, 71, 32, 240, 159, 152, 128>>

FramerScripts ==
  { Stream(<<F_PING_2>>),
    Stream(<<L_PING_A, <<>>, F_PING_3>>),
    Stream(<<F_PING_4, L_PING_B>>),
    Stream(<<F_PING_2, F_PING_2>>) }

InitFramer ==
  /\ ComponentsInit
  /\ script \in FramerScripts
  /\ wire = script
  /\ debug_build \in BOOLEAN
  /\ sent = <<>> /\ buffer = <<>> /\ message_buffer = <<>>
  /\ write_queue = <<>> /\ msg_queue = <<>>
  /\ quit = FALSE /\ mutex = "free"
  /\ state = InitState /\ ui_enabled = TRUE
  /\ pc_rw = "recv" /\ wbuf = <<>> /\ batch = <<>> /\ rw_err = ""
  /\ pc_in = "done" /\ inputs_left = 0 /\ in_err = ""
  /\ pc_main = "top" /\ init_todo = <<>> /\ main_msg = NoMsg /\ exit_reason = ""
  /\ enqueued = <<>> /\ produced = <<>> /\ handled = <<>>

\* one recv call whose read returns the next n bytes of the stream
FramerRecv ==
  /\ pc_rw = "recv"
  /\ \E n \in 1..Len(wire) :
     \E r \in {Recv(buffer, message_buffer, <<ReadResult("Ok", Take(wire, n))>>, debug_build)} :
          /\ wire' = Drop(wire, n)
          /\ buffer' = r.buffer
          /\ message_buffer' = r.message_buffer
          /\ batch' = r.msgs
          /\ produced' = produced \o r.msgs
          /\ rw_err' = IF r.kind \in {"Ok", "Panic"} THEN rw_err ELSE r.kind
          /\ pc_rw' = IF r.kind = "Panic" THEN "panicked"
                      ELSE IF r.kind # "Ok" THEN "err" ELSE "recv"
  /\ UNCHANGED <<script, component_vars, sent, debug_build, write_queue, msg_queue, quit, mutex,
                 state, ui_enabled, wbuf, in_vars, main_vars, enqueued, handled>>

NextFramer == FramerRecv

SpecFramer == InitFramer /\ [][NextFramer]_vars

\* the bytes of the script the stream has delivered
Consumed == Take(script, Len(script) - Len(wire))

\* the complete lines of a byte stream, without their CRLF
RECURSIVE CompleteLines(_)
CompleteLines(bytes) ==
  LET idx == Find(bytes, CRLF)
  IN IF idx = 0 THEN <<>>
     ELSE <<Take(bytes, idx - 1)>> \o CompleteLines(Drop(bytes, idx + 1))

\* the messages of the non-empty lines that parse, in order
RECURSIVE WellFormed(_)
WellFormed(lines) ==
  IF lines = <<>> THEN <<>>
  ELSE IF Head(lines) # <<>> /\ IrcMessageParse(Head(lines)).kind = "Ok"
  THEN <<IrcMessageParse(Head(lines)).msg>> \o WellFormed(Tail(lines))
  ELSE WellFormed(Tail(lines))

ExpectedMsgs(bytes) == WellFormed(CompleteLines(bytes))

\* C5 as stated: between recv calls, the batches returned so far are
\* exactly the messages of the complete lines delivered so far, whatever
\* the cuts.
C5_Original == pc_rw = "recv" => produced = ExpectedMsgs(Consumed)

\* C6 as stated: a line that does not parse never ends the reader/writer
\* thread, and while the thread runs the messages recv returned are those
\* of the well-formed lines delivered so far.
C6_Original ==
  /\ rw_err # "IrcParseErr"
  /\ pc_rw \in {"top", "try", "write"} => produced = ExpectedMsgs(Consumed)

\* the reader/writer thread returned after a stream error
RwFailed == pc_rw = "done" /\ rw_err \in {"Closed", "TooManyRetries", "Io"}

\* C7 as stated: after the reader/writer thread returned on a stream error
\* the quit flag eventually becomes set.
C7_Original == RwFailed ~> quit

\* C8 as stated: once the dispatcher has handled a server ERROR the quit
\* flag is set.
C8_Original == (\E i \in 1..Len(handled) : handled[i].cmd = "Error") => quit

AllReturned == pc_rw \in {"done", "panicked"} /\ pc_in = "done" /\ pc_main = "done"

C11_MutexDiscipline ==
  /\ [](mutex \in {"free", "input"})
  /\ [](mutex = "input" => pc_in = "quit_store")
  /\ [][(state' # state \/ ui_enabled' # ui_enabled) => mutex = "free"]_vars

\* the reader/writer thread has an error to report while the input thread
\* holds the mutex
C11_Witness == mutex = "input" /\ pc_rw = "err"

(***************************************************************************)
(* The codec on its own: a message is serialized by                        *)
(* IrcMessage::to_irc_string and the line it gives, without its CRLF, is   *)
(* parsed by IrcMessage::parse.                                            *)
(***************************************************************************)
T_A == <<97>>
T_A_B == <<97, 32, 98>>
T_COLON_A == <<58, 97>>
CH_C == <<35, 99>>
CH_D == <<35, 100>>
V_FOO == <<70, 79, 79>>

CodecTexts == {T_A, T_A_B, T_COLON_A}

\* the target lists of PRIVMSG and NOTICE: none, channels, a nickname
CodecTargets == {<<>>, <<CH_C>>, <<CH_C, CH_D>>, <<T_A>>}

\* the commands the codec is given
CodecCommands ==
  {from_command(c, <<PString(t)>>) :
     c \in {"Pass", "Nick", "Ping", "Pong", "Quit", "Error", "Raw"}, t \in CodecTexts}
    \cup {from_command("User", <<PString(t), PString(r)>>) : t \in {T_A}, r \in CodecTexts}
    \cup {from_command("Quit", <<>>), from_command("Authenticate", <<>>),
          from_command("Join", <<>>),
          from_command("Join", <<PList(<<CH_C>>)>>),
          from_command("Join", <<PList(<<CH_C>>), PList(<<CH_D>>)>>),
          from_command("Join", <<PList(<<CH_C, T_A>>)>>)}
    \cup {from_command(c, <<PList(ts), PString(t)>>) :
            c \in {"Privmsg", "Notice"}, ts \in CodecTargets, t \in CodecTexts}
    \cup {Msg(NoSource, "Numeric", n, a) : n \in {1, 433}, a \in {<<>>, <<PString(T_A)>>}}
    \cup {from_command("Unknown", <<PString(V_FOO)>> \o a) :
            a \in {<<>>, <<PString(T_A)>>, <<PString(T_A), PString(T_COLON_A)>>,
                   <<PString(T_A_B)>>, <<PList(<<T_A, T_A>>)>>}}
    \cup {from_command("Unknown", <<PString(T_COLON_A)>>)}

ServerSource == [kind |-> "Server", name |-> T_A, user |-> <<>>, host |-> <<>>]

CodecMessages ==
  CodecCommands \cup {[m EXCEPT !.source = ServerSource] : m \in CodecCommands}

InitCodec ==
  /\ codec_msg \in CodecMessages /\ codec_ser = NoSer /\ codec_parsed = NoParse
  /\ input_buffer = InputBuffer_new /\ layout_case = NoLayout /\ layout_sizes = NoRects
  /\ add_line_creates = FALSE /\ issued = <<>> /\ FnIdle
  /\ script = <<>> /\ wire = <<>> /\ debug_build = FALSE
  /\ sent = <<>> /\ buffer = <<>> /\ message_buffer = <<>>
  /\ write_queue = <<>> /\ msg_queue = <<>>
  /\ quit = FALSE /\ mutex = "free"
  /\ state = InitState /\ ui_enabled = TRUE
  /\ pc_rw = "done" /\ wbuf = <<>> /\ batch = <<>> /\ rw_err = ""
  /\ pc_in = "done" /\ inputs_left = 0 /\ in_err = ""
  /\ pc_main = "done" /\ init_todo = <<>> /\ main_msg = NoMsg /\ exit_reason = ""
  /\ enqueued = <<>> /\ produced = <<>> /\ handled = <<>>

\* everything but the codec
non_codec_vars ==
  <<net_vars, write_queue, msg_queue, quit, mutex, state, ui_enabled,
    rw_vars, in_vars, main_vars, hist_vars, ui_vars, fn_vars, add_line_creates, issued>>

\* codec_msg.to_irc_string()
CodecSerialize ==
  /\ codec_ser.kind = "None"
  /\ codec_ser' = ToIrcString(codec_msg)
  /\ UNCHANGED <<codec_msg, codec_parsed, non_codec_vars>>

\* IrcMessage::parse of the serialized line without its CRLF
CodecParse ==
  /\ codec_ser.kind = "Ok" /\ codec_parsed.kind = "None"
  /\ codec_parsed' = IrcMessageParse(Take(codec_ser.bytes, Len(codec_ser.bytes) - 2))
  /\ UNCHANGED <<codec_msg, codec_ser, non_codec_vars>>

NextCodec == CodecSerialize \/ CodecParse

SpecCodec == InitCodec /\ [][NextCodec]_vars

\* the serialized line starts with a source prefix
HasSourcePrefix(bytes) ==
  LET t == TrimStart(bytes) IN t # <<>> /\ t[1] = COLON

EndsWithCRLF(bytes) ==
  Len(bytes) >= 2 /\ Drop(bytes, Len(bytes) - 2) = CRLF

\* the errors of to_irc_string that the message's source and command ask for
SerializeErrors ==
  /\ codec_msg.source.kind # "None"
       => codec_ser.kind = "Err" /\ codec_ser.err = "ClientMustNotSendSource"
  /\ codec_msg.source.kind = "None" /\ codec_msg.cmd \in {"Error", "Numeric"}
       => codec_ser.kind = "Err" /\ codec_ser.err = "ClientMayNotCreate"

SameParams(a, b) ==
  /\ Len(a) = Len(b)
  /\ \A i \in 1..Len(a) : ParamToIrcString(a[i]) = ParamToIrcString(b[i])

SameMessage(m1, m2) ==
  /\ m1.source = m2.source /\ m1.cmd = m2.cmd /\ m1.num = m2.num
  /\ SameParams(m1.args, m2.args)

\* the commands a client emits
Emittable ==
  {"Pass", "Nick", "User", "Ping", "Pong", "Quit", "Join", "Privmsg", "Notice", "Unknown"}

\* C13 as stated: for every client-emittable command that was serialized,
\* parsing the serialized line succeeds and yields the same message, up to
\* the list or single-string representation of its parameters.
C13_Original ==
  (codec_msg.cmd \in Emittable /\ codec_ser.kind = "Ok" /\ codec_parsed.kind # "None")
    => codec_parsed.kind = "Ok" /\ SameMessage(codec_parsed.msg, codec_msg)

\* the round trip of the commands it holds for: NICK, USER, PING, QUIT
\* without reason, JOIN without keys, PRIVMSG and NOTICE, and Unknown whose
\* parameters have no space and no leading colon
C13_RoundTripWhereItHolds ==
  (/\ codec_msg.cmd \in {"Nick", "User", "Ping", "Join", "Privmsg", "Notice"}
        \/ (codec_msg.cmd = "Quit" /\ codec_msg.args = <<>>)
        \/ (/\ codec_msg.cmd = "Unknown" /\ codec_msg.args[1].s[1] # COLON
            /\ \A i \in 2..Len(codec_msg.args) :
                 LET t == ParamToIrcString(codec_msg.args[i])
                 IN Find(t, <<SP>>) = 0 /\ t[1] # COLON)
   /\ codec_ser.kind = "Ok" /\ codec_parsed.kind # "None")
    => codec_parsed.kind = "Ok" /\ SameMessage(codec_parsed.msg, codec_msg)

(***************************************************************************)
(* Registration.                                                           *)
(***************************************************************************)
\* the bytes of the registration messages on the stream
RegistrationBytes ==
  Flatten([i \in 1..Len(InitMessages) |-> ToIrcString(InitMessages[i]).bytes])

CommandParseFailed == in_err = "Other(failed to parse command)"

\* C15 as stated: a command line that fails to parse enqueues nothing,
\* changes no session state (it only adds lines to the window) and leaves
\* the input thread running: the thread goes back to the top of its loop.
C15_Original ==
  [][(~CommandParseFailed /\ CommandParseFailed')
       => /\ write_queue' = write_queue
          /\ [state' EXCEPT !.ui_history = <<>>] = [state EXCEPT !.ui_history = <<>>]
          /\ pc_in' = "top"]_vars

(***************************************************************************)
(* The dispatcher and the input handler on their own: both run under the   *)
(* state mutex, so a session is a sequence of whole IrcMessage::handle and *)
(* handle_input calls, on the messages the parser makes of the lines the   *)
(* server sends and on the lines the user types.                           *)
(***************************************************************************)
\* the number of messages and inputs of a session
MaxDispatch == 4

\* what the server sends; the local nick is a
DispatchLines ==
  { L_WELCOME_A,
    \* :a!u JOIN #c
    <<58, 97, 33, 117, 32, 74, 79, 73, 78, 32, 35, 99>>,
    \* :b!u JOIN #c
    <<58, 98, 33, 117, 32, 74, 79, 73, 78, 32, 35, 99>>,
    \* 353 a = #c b
    <<51, 53, 51, 32, 97, 32, 61, 32, 35, 99, 32, 98>>,
    \* 366 a #c e
    <<51, 54, 54, 32, 97, 32, 35, 99, 32, 101>>,
    \* 353 a = x b
    <<51, 53, 51, 32, 97, 32, 61, 32, 120, 32, 98>>,
    \* 366 a x e
    <<51, 54, 54, 32, 97, 32, 120, 32, 101>>,
    \* :b!u PRIVMSG a h
    <<58, 98, 33, 117, 32, 80, 82, 73, 86, 77, 83, 71, 32, 97, 32, 104>>,
    \* :a!u PRIVMSG a h
    <<58, 97, 33, 117, 32, 80, 82, 73, 86, 77, 83, 71, 32, 97, 32, 104>>,
    \* :b!u NOTICE a h
    <<58, 98, 33, 117, 32, 78, 79, 84, 73, 67, 69, 32, 97, 32, 104>>,
    \* :b!u PRIVMSG #c h
    <<58, 98, 33, 117, 32, 80, 82, 73, 86, 77, 83, 71, 32, 35, 99, 32, 104>>,
    \* :b!u PRIVMSG a :\x01ACTION w\x01
    <<58, 98, 33, 117, 32, 80, 82, 73, 86, 77, 83, 71, 32, 97, 32, 58, 1, 65, 67, 84, 73,
      79, 78, 32, 119, 1>>,
    \* :b!u PRIVMSG a :\x01CLIENTINFO\x01
    <<58, 98, 33, 117, 32, 80, 82, 73, 86, 77, 83, 71, 32, 97, 32, 58, 1, 67, 76,
      73, 69, 78, 84, 73, 78, 70, 79, 1>>,
    \* :s PRIVMSG a :\x01CLIENTINFO\x01
    <<58, 115, 32, 80, 82, 73, 86, 77, 83, 71, 32, 97, 32, 58, 1, 67, 76, 73, 69,
      78, 84, 73, 78, 70, 79, 1>>,
    \* PRIVMSG #c :\x01CLIENTINFO\x01
    <<80, 82, 73, 86, 77, 83, 71, 32, 35, 99, 32, 58, 1, 67, 76, 73, 69, 78, 84, 73,
      78, 70, 79, 1>>,
    \* :b!u PRIVMSG a,#c :\x01CLIENTINFO\x01
    <<58, 98, 33, 117, 32, 80, 82, 73, 86, 77, 83, 71, 32, 97, 44, 35, 99, 32, 58,
      1, 67, 76, 73, 69, 78, 84, 73, 78, 70, 79, 1>>,
    \* 353 a = #c :b c
    <<51, 53, 51, 32, 97, 32, 61, 32, 35, 99, 32, 58, 98, 32, 99>>,
    \* PASS x
    <<80, 65, 83, 83, 32, 120>>,
    \* USER a 0 * a
    <<85, 83, 69, 82, 32, 97, 32, 48, 32, 42, 32, 97>>,
    \* NAMES #c
    <<78, 65, 77, 69, 83, 32, 35, 99>>,
    \* PONG s t
    <<80, 79, 78, 71, 32, 115, 32, 116>>,
    \* :b!u NOTICE a :\x01CLIENTINFO\x01
    <<58, 98, 33, 117, 32, 78, 79, 84, 73, 67, 69, 32, 97, 32, 58, 1, 67, 76, 73,
      69, 78, 84, 73, 78, 70, 79, 1>>,
    \* 001 a :h\x0di
    <<48, 48, 49, 32, 97, 32, 58, 104, 13, 105>>,
    \* @t PING x
    <<64, 116, 32, 80, 73, 78, 71, 32, 120>>,
    \* :@h PING x
    <<58, 64, 104, 32, 80, 73, 78, 71, 32, 120>> }

\* what the user types: /join #c, /msg b, /msg a, hi, /join x, /raw q
DispatchInputs ==
  { <<47, 106, 111, 105, 110, 32, 35, 99>>, <<47, 109, 115, 103, 32, 98>>,
    <<47, 109, 115, 103, 32, 97>>, <<104, 105>>,
    <<47, 106, 111, 105, 110, 32, 120>>, <<47, 114, 97, 119, 32, 113>> }

InitDispatch ==
  /\ codec_msg = NoMsg /\ codec_ser = NoSer /\ codec_parsed = NoParse
  /\ input_buffer = InputBuffer_new /\ layout_case = NoLayout /\ layout_sizes = NoRects
  /\ add_line_creates \in BOOLEAN /\ issued = <<>> /\ FnIdle
  /\ script = <<>> /\ wire = <<>> /\ debug_build = FALSE
  /\ sent = <<>> /\ buffer = <<>> /\ message_buffer = <<>>
  /\ write_queue = <<>> /\ msg_queue = <<>>
  /\ quit = FALSE /\ mutex = "free"
  /\ state = InitState /\ ui_enabled = TRUE
  /\ pc_rw = "top" /\ wbuf = <<>> /\ batch = <<>> /\ rw_err = ""
  /\ pc_in = "poll" /\ inputs_left = MaxDispatch /\ in_err = ""
  /\ pc_main = "dispatch" /\ init_todo = <<>> /\ main_msg = NoMsg /\ exit_reason = ""
  /\ enqueued = <<>> /\ produced = <<>> /\ handled = <<>>

\* one line of the server that recv parses (net/server_io.rs 107-118), and
\* the main loop's body for its message (client.rs 230-251)
DispatchMessage ==
  /\ ~quit /\ pc_rw = "top" /\ Len(handled) + Len(issued) < MaxDispatch
  /\ \E line \in DispatchLines :
       /\ IrcMessageParse(line).kind = "Ok"
       /\ \E m \in {IrcMessageParse(line).msg} :
          \E r \in {handle(state, m, TRUE)} :
            /\ script' = script \o line \o CRLF
            /\ state' = IF r.err
                        THEN ui_push(r.st, "line", "ERROR unable to handle message", <<>>)
                        ELSE r.st
            /\ write_queue' = channel_send(write_queue, r.out)
            /\ enqueued' = enqueued \o r.out
            /\ quit' = r.err
            /\ handled' = Append(handled, m)
  /\ UNCHANGED <<wire, sent, buffer, message_buffer, debug_build, codec_vars, ui_vars, fn_vars,
                 add_line_creates, issued, msg_queue, mutex, ui_enabled, rw_vars, in_vars,
                 main_vars, produced>>

\* one line of the server that recv does not parse: IrcMessage::parse
\* panics in the reader/writer thread, or returns an error and recv with it
DispatchUnparsed ==
  /\ ~quit /\ pc_rw = "top" /\ Len(handled) + Len(issued) < MaxDispatch
  /\ \E line \in DispatchLines :
       \E parsed \in {IrcMessageParse(line)} :
         /\ parsed.kind # "Ok"
         /\ script' = script \o line \o CRLF
         /\ pc_rw' = IF parsed.kind = "Panic" THEN "panicked" ELSE "err"
         /\ rw_err' = IF parsed.kind = "Panic" THEN rw_err ELSE "IrcParseErr"
  /\ UNCHANGED <<wire, sent, buffer, message_buffer, debug_build, codec_vars, ui_vars, fn_vars,
                 add_line_creates, issued, write_queue, msg_queue, quit, mutex, state,
                 ui_enabled, wbuf, batch, in_vars, main_vars, hist_vars>>

\* the input thread's handling of one completed line (client.rs 180-200)
DispatchInput ==
  /\ ~quit /\ in_err = "" /\ Len(handled) + Len(issued) < MaxDispatch
  /\ \E input \in DispatchInputs :
       \E r \in {handle_input(state, Trim(input), TRUE)} :
         /\ state' = r.st
         /\ write_queue' = channel_send(write_queue, r.out)
         /\ enqueued' = enqueued \o r.out
         /\ in_err' = r.err
         /\ issued' = Append(issued, [input |-> input, phase |-> state.phase, err |-> r.err])
  /\ UNCHANGED <<net_vars, codec_vars, ui_vars, fn_vars, add_line_creates, msg_queue, quit, mutex,
                 ui_enabled, rw_vars, pc_in, inputs_left, main_vars, produced, handled>>

NextDispatch == DispatchMessage \/ DispatchUnparsed \/ DispatchInput

SpecDispatch == InitDispatch /\ [][NextDispatch]_vars

(***************************************************************************)
(* The pending NAMES accumulator.                                          *)
(***************************************************************************)
\* the channel names with a RPL_NAMREPLY in log after their last
\* RPL_ENDOFNAMES
RECURSIVE NamesOpen(_)
NamesOpen(log) ==
  IF log = <<>> THEN {}
  ELSE LET m == log[Len(log)]
           before == NamesOpen(SubSeq(log, 1, Len(log) - 1))
       IN IF m.cmd = "Numeric" /\ m.num = RPL_NAMREPLY /\ Len(m.args) >= 3
          THEN before \cup {m.args[3].s}
          ELSE IF m.cmd = "Numeric" /\ m.num = RPL_ENDOFNAMES /\ Len(m.args) >= 2
          THEN before \ {m.args[2].s}
          ELSE before

\* C16: in a Connected session the pending NAMES accumulator has an entry
\* for a name only if a RPL_NAMREPLY for that name was handled since the
\* last RPL_ENDOFNAMES for it: RPL_ENDOFNAMES always removes the entry,
\* whatever the name looks like and whether or not the channel is joined
C16_Original ==
  state.phase = "Connected" => DOMAIN state.active_names \subseteq NamesOpen(handled)

\* the part of C16 the dispatcher keeps: names that are channel names
C16_ChannelNamesOnly ==
  state.phase = "Connected" =>
    \A c \in DOMAIN state.active_names : ChannelNameValid(c) => c \in NamesOpen(handled)

(***************************************************************************)
(* The joined channels.                                                    *)
(***************************************************************************)
\* the channels of the JOIN messages in log whose source is nick
SelfJoined(log, nick) ==
  UNION { {log[i].args[k].l[1] : k \in DOMAIN log[i].args} :
            i \in {j \in DOMAIN log : log[j].cmd = "Join" /\ log[j].source.kind # "None"
                                      /\ get_name(log[j].source) = nick} }

\* the channels of the /join commands among the inputs that were handled in
\* a Connected session without an error
UserJoined(inputs) ==
  { CommandParse(Drop(inputs[i].input, 1)).arg :
      i \in {j \in DOMAIN inputs : /\ inputs[j].phase = "Connected" /\ inputs[j].err = ""
                                   /\ inputs[j].input[1] = SLASH
                                   /\ CommandParse(Drop(inputs[j].input, 1)).cmd = "Join"} }

\* C17: in a Connected session a channel is among the joined channels if and
\* only if the dispatcher processed a JOIN for it whose source is the local
\* nick or the user issued /join for it; a JOIN from another nick adds nothing
C17_Original ==
  state.phase = "Connected" =>
    DOMAIN state.channels = SelfJoined(handled, state.nick) \cup UserJoined(issued)

\* the part of C17 that holds whatever add_line does: /join adds the channel
C17_UserJoinAdds ==
  state.phase = "Connected" => UserJoined(issued) \subseteq DOMAIN state.channels

(***************************************************************************)
(* Private conversations.                                                  *)
(***************************************************************************)
\* the conversation keyed by nick n: its lines, or <<>> when there is none
Conversation(st, n) == IF n \in DOMAIN st.users THEN st.users[n].messages ELSE <<>>

\* this step dispatched a PRIVMSG or NOTICE sent by a nick
MessageFromNickDispatched ==
  /\ handled' # handled
  /\ handled'[Len(handled')].cmd \in {"Privmsg", "Notice"}
  /\ handled'[Len(handled')].source.kind = "Nick"

\* the nicknames among the targets of message m
NicknameTargets(m) ==
  {m.args[1].l[i] : i \in {j \in DOMAIN m.args[1].l : TargetOf(m.args[1].l[j]).kind = "Nickname"}}

\* a PRIVMSG or NOTICE addressed to a nickname changes no conversation but
\* the one keyed by its sender
SenderKeyed ==
  MessageFromNickDispatched =>
    \A n \in (DOMAIN state'.users \cup NicknameTargets(handled'[Len(handled')])) :
       n # handled'[Len(handled')].source.name =>
         /\ (n \in DOMAIN state'.users) = (n \in DOMAIN state.users)
         /\ Conversation(state', n) = Conversation(state, n)

\* C18: a PRIVMSG or NOTICE addressed to a nickname goes to the
\* conversation keyed by the sender, never to one keyed by the recipient,
\* and after any inbound messages and user commands no conversation window
\* is keyed by the local user's own nick
C18_Original ==
  /\ [][SenderKeyed]_vars
  /\ [](state.phase = "Connected" => state.nick \notin DOMAIN state.users)

\* the part of C18 that holds: the conversation is keyed by the sender
C18_SenderKeyed == [][SenderKeyed]_vars

(***************************************************************************)
(* The input buffer (ui/input_buffer.rs): a String and a byte index into   *)
(* it.  The text is kept as its UTF-8 bytes.                               *)
(***************************************************************************)
\* the largest buffer, in bytes
MaxBufferBytes == 6
\* the largest character index given to select
MaxSelect == 4

\* the characters typed: a, U+00E9, U+20AC and U+1F600 in UTF-8
InputChars == {<<97>>, <<195, 169>>, <<226, 130, 172>>, <<240, 159, 152, 128>>}

\* the offsets given to offset
Offsets == {-2, -1, 1, 2}

\* str::is_char_boundary
is_char_boundary(s, i) ==
  IF i = 0 THEN TRUE
  ELSE IF i >= Len(s) THEN i = Len(s)
  ELSE ~IsCont(s[i + 1])

\* str::floor_char_boundary
RECURSIVE floor_char_boundary(_, _)
floor_char_boundary(s, i) ==
  IF i >= Len(s) THEN Len(s)
  ELSE IF is_char_boundary(s, i) THEN i
  ELSE floor_char_boundary(s, i - 1)

\* str::get(a..b).is_some()
StrGetIsSome(s, a, b) ==
  a <= b /\ b <= Len(s) /\ is_char_boundary(s, a) /\ is_char_boundary(s, b)

\* char_indices().skip(idx).next(): the byte index of the character idx
\* characters after byte index pos, the length of s past the end
RECURSIVE NthCharIndex(_, _, _)
NthCharIndex(s, pos, idx) ==
  IF pos >= Len(s) THEN Len(s)
  ELSE IF idx = 0 THEN pos
  ELSE NthCharIndex(s, pos + utf8_char_width(s[pos + 1]), idx - 1)

Panicked(ib) == [ib EXCEPT !.panicked = TRUE]

\* String::remove(idx) on the buffer: panics off a char boundary or at the end
StringRemove(ib, idx) ==
  IF idx >= Len(ib.buffer) \/ ~is_char_boundary(ib.buffer, idx) THEN Panicked(ib)
  ELSE [ib EXCEPT !.buffer = Take(@, idx) \o Drop(@, idx + utf8_char_width(@[idx + 1]))]

\* InputBuffer::insert; String::insert panics off a char boundary
insert(ib, char) ==
  IF ~is_char_boundary(ib.buffer, ib.cursor) THEN Panicked(ib)
  ELSE [ib EXCEPT !.buffer = Take(@, ib.cursor) \o char \o Drop(@, ib.cursor),
                  !.cursor = @ + Len(char)]

\* InputBuffer::delete
delete(ib) == IF ib.cursor < Len(ib.buffer) THEN StringRemove(ib, ib.cursor) ELSE ib

\* InputBuffer::finish
finish(ib) == [ib EXCEPT !.cursor = 0, !.buffer = <<>>]

\* InputBuffer::backspace
backspace(ib) ==
  IF 1 <= ib.cursor /\ ib.cursor <= Len(ib.buffer)
  THEN LET prev_idx == floor_char_boundary(ib.buffer, ib.cursor - 1)
           removed == StringRemove(ib, prev_idx)
       IN IF removed.panicked THEN removed ELSE [removed EXCEPT !.cursor = prev_idx]
  ELSE ib

\* InputBuffer::select
select(ib, idx) == [ib EXCEPT !.cursor = NthCharIndex(ib.buffer, 0, idx)]

\* an offset that advances a byte at a time
RECURSIVE offset_ByteStep(_, _)
offset_ByteStep(ib, n) ==
  IF n > 0
  THEN IF ib.cursor < Len(ib.buffer)
       THEN offset_ByteStep([ib EXCEPT !.cursor = @ + 1], n - 1)
       ELSE ib
  ELSE IF n < 0
  THEN IF ib.cursor > 0
       THEN offset_ByteStep([ib EXCEPT !.cursor = floor_char_boundary(ib.buffer, @ - 1)], n + 1)
       ELSE ib
  ELSE ib

\* InputBuffer::offset: the slice cursor..cursor+1 has length 1 when it exists
RECURSIVE offset(_, _)
offset(ib, n) ==
  IF n > 0
  THEN IF StrGetIsSome(ib.buffer, ib.cursor, ib.cursor + 1)
       THEN offset([ib EXCEPT !.cursor = @ + 1], n - 1)
       ELSE ib
  ELSE IF n < 0
  THEN IF ib.cursor > 0
       THEN offset([ib EXCEPT !.cursor = floor_char_boundary(ib.buffer, @ - 1)], n + 1)
       ELSE ib
  ELSE ib

\* the session at rest: no thread runs, nothing was sent or received
SessionIdle ==
  /\ script = <<>> /\ wire = <<>> /\ debug_build = FALSE
  /\ sent = <<>> /\ buffer = <<>> /\ message_buffer = <<>>
  /\ write_queue = <<>> /\ msg_queue = <<>>
  /\ quit = FALSE /\ mutex = "free"
  /\ state = InitState /\ ui_enabled = TRUE
  /\ pc_rw = "done" /\ wbuf = <<>> /\ batch = <<>> /\ rw_err = ""
  /\ pc_in = "done" /\ inputs_left = 0 /\ in_err = ""
  /\ pc_main = "done" /\ init_todo = <<>> /\ main_msg = NoMsg /\ exit_reason = ""
  /\ enqueued = <<>> /\ produced = <<>> /\ handled = <<>>

InitInputBuffer == ComponentsInit /\ SessionIdle

\* everything but the input buffer
non_input_vars ==
  <<net_vars, write_queue, msg_queue, quit, mutex, state, ui_enabled, rw_vars, in_vars,
    main_vars, hist_vars, codec_vars, layout_case, layout_sizes, fn_vars, add_line_creates, issued>>

\* KeyCode::Char(c)
InputInsert ==
  /\ ~input_buffer.panicked
  /\ \E c \in InputChars :
       /\ Len(input_buffer.buffer) + Len(c) <= MaxBufferBytes
       /\ input_buffer' = insert(input_buffer, c)
  /\ UNCHANGED non_input_vars

\* KeyCode::Delete, ctrl-d
InputDelete ==
  /\ ~input_buffer.panicked
  /\ input_buffer' = delete(input_buffer)
  /\ UNCHANGED non_input_vars

\* KeyCode::Backspace
InputBackspace ==
  /\ ~input_buffer.panicked
  /\ input_buffer' = backspace(input_buffer)
  /\ UNCHANGED non_input_vars

\* KeyCode::Enter
InputFinish ==
  /\ ~input_buffer.panicked
  /\ input_buffer' = finish(input_buffer)
  /\ UNCHANGED non_input_vars

\* ctrl-a, ctrl-e: select(0), select(buffer().len())
InputSelect ==
  /\ ~input_buffer.panicked
  /\ \E idx \in 0..MaxSelect \cup {Len(input_buffer.buffer)} :
       input_buffer' = select(input_buffer, idx)
  /\ UNCHANGED non_input_vars

\* ctrl-f, ctrl-b: offset(1), offset(-1)
InputOffset ==
  /\ ~input_buffer.panicked
  /\ \E n \in Offsets : input_buffer' = offset(input_buffer, n)
  /\ UNCHANGED non_input_vars

NextInputBuffer ==
  \/ InputInsert \/ InputDelete \/ InputBackspace
  \/ InputFinish \/ InputSelect \/ InputOffset

SpecInputBuffer == InitInputBuffer /\ [][NextInputBuffer]_vars

\* C19: after any sequence of insert, backspace, delete, select, offset and
\* finish, multi-byte characters included, no operation has panicked, the
\* cursor is at most the byte length of the buffer and lies on a character
\* boundary; after finish the buffer is empty and the cursor is 0
C19_CursorInvariant ==
  /\ [](/\ ~input_buffer.panicked
        /\ input_buffer.cursor <= Len(input_buffer.buffer)
        /\ is_char_boundary(input_buffer.buffer, input_buffer.cursor))
  /\ [][InputFinish => (input_buffer'.buffer = <<>> /\ input_buffer'.cursor = 0)]_vars

\* the cursor on the boundary between a three-byte and a two-byte character
C19_Witness ==
  /\ input_buffer.buffer = <<226, 130, 172, 195, 169>>
  /\ input_buffer.cursor = 3

(***************************************************************************)
(* The layout resolver (ui/layout.rs).  A section is a Leaf or a Node of a *)
(* kind Exact(n) or Fill(n); calc returns the rectangles of the leaves.    *)
(***************************************************************************)
Leaf(kind, n) == [node |-> FALSE, kind |-> kind, n |-> n, direction |-> "", sub_sections |-> <<>>]

Node(direction, kind, n, sub_sections) ==
  [node |-> TRUE, kind |-> kind, n |-> n, direction |-> direction,
   sub_sections |-> sub_sections]

Rect(x, y, width, height) == [x |-> x, y |-> y, width |-> width, height |-> height]

\* the first pass: an Exact that is smaller than what remains is resolved
\* and taken from it, any other Exact does not fit, a Fill waits
RECURSIVE ResolveExacts(_, _, _)
ResolveExacts(sections, remaining, sizes) ==
  IF sections = <<>> THEN [sizes |-> sizes, remaining |-> remaining]
  ELSE LET s == Head(sections)
       IN IF s.kind = "Exact" /\ s.n < remaining
          THEN ResolveExacts(Tail(sections), remaining - s.n,
                             Append(sizes, [state |-> "Resolved", v |-> s.n]))
          ELSE IF s.kind = "Exact"
          THEN ResolveExacts(Tail(sections), remaining,
                             Append(sizes, [state |-> "DoesNotFit", v |-> 0]))
          ELSE ResolveExacts(Tail(sections), remaining,
                             Append(sizes, [state |-> "WeightedFill", v |-> s.n]))

\* the sum of the weights of the fills
RECURSIVE TotalWeight(_)
TotalWeight(sizes) ==
  IF sizes = <<>> THEN 0
  ELSE (IF Head(sizes).state = "WeightedFill" THEN Head(sizes).v ELSE 0)
       + TotalWeight(Tail(sizes))

\* split.drain(..weight).sum() when taken shares of split were drained
\* before: the first rem shares are base + 1, the others base
DrainSum(base, rem, taken, weight) ==
  weight * base + Cardinality({k \in (taken + 1)..(taken + weight) : k <= rem})

\* the second pass: every fill takes its shares in order
RECURSIVE ResolveFills(_, _, _, _)
ResolveFills(sizes, base, rem, taken) ==
  IF sizes = <<>> THEN <<>>
  ELSE LET s == Head(sizes)
       IN IF s.state = "WeightedFill"
          THEN <<[state |-> "Resolved", v |-> DrainSum(base, rem, taken, s.v)]>>
               \o ResolveFills(Tail(sizes), base, rem, taken + s.v)
          ELSE <<s>> \o ResolveFills(Tail(sizes), base, rem, taken)

RectsOk(rects) == [kind |-> "Ok", rects |-> rects]

RectsPanic == [kind |-> "Panic", rects |-> <<>>]

\* Layout::calc_recurse.  The weights are summed in a u8: a sum over 255
\* panics in a debug build and wraps in a release build, where a later
\* drain runs past the end of split and panics as well.
RECURSIVE calc_recurse(_, _, _)
RECURSIVE PlaceRects(_, _, _, _, _)
PlaceRects(direction, sizes, sections, rect, pos) ==
  IF sizes = <<>> THEN RectsOk(<<>>)
  ELSE IF Head(sizes).state # "Resolved" THEN RectsPanic
  ELSE LET size == Head(sizes).v
           r == IF direction = "Vertical" THEN Rect(rect.x, pos, rect.width, size)
                ELSE Rect(pos, rect.y, size, rect.height)
           here == IF Head(sections).node
                   THEN calc_recurse(Head(sections).direction, Head(sections).sub_sections, r)
                   ELSE RectsOk(<<r>>)
           rest == PlaceRects(direction, Tail(sizes), Tail(sections), rect, pos + size)
       IN IF here.kind = "Panic" \/ rest.kind = "Panic" THEN RectsPanic
          ELSE RectsOk(here.rects \o rest.rects)

calc_recurse(direction, sections, rect) ==
  LET first == ResolveExacts(sections,
                             IF direction = "Vertical" THEN rect.height ELSE rect.width, <<>>)
      total_weight == TotalWeight(first.sizes)
  IN IF total_weight > 255 \/ total_weight = 0 THEN RectsPanic
     ELSE PlaceRects(direction,
                     ResolveFills(first.sizes, first.remaining \div total_weight,
                                  first.remaining % total_weight, 0),
                     sections, rect,
                     IF direction = "Vertical" THEN rect.y ELSE rect.x)

\* Layout::calc
calc(layout, term_size) ==
  calc_recurse(layout.direction, layout.sections, Rect(0, 0, term_size[1], term_size[2]))

\* the longest list of sections
MaxSections == 3

\* the kinds of the sections of a list
LayoutKinds ==
  { Leaf("Exact", 1), Leaf("Exact", 2), Leaf("Exact", 24),
    Leaf("Fill", 0), Leaf("Fill", 1), Leaf("Fill", 2), Leaf("Fill", 128) }

\* the terminal sizes as (columns, rows)
TermSizes == {<<80, 24>>, <<11, 1>>}

\* the lists of leaves, and two lists with a nested list
LayoutSections ==
  UNION {[1..n -> LayoutKinds] : n \in 1..MaxSections}
    \cup { <<Leaf("Fill", 1), Node("Horizontal", "Exact", 1, <<Leaf("Fill", 2), Leaf("Fill", 1)>>)>>,
           <<Node("Vertical", "Fill", 1, <<Leaf("Exact", 1), Leaf("Fill", 1)>>), Leaf("Fill", 1)>> }

InitLayout ==
  /\ codec_msg = NoMsg /\ codec_ser = NoSer /\ codec_parsed = NoParse
  /\ input_buffer = InputBuffer_new
  /\ add_line_creates = FALSE /\ issued = <<>> /\ FnIdle
  /\ layout_case \in [direction : {"Vertical", "Horizontal"}, sections : LayoutSections,
                      term_size : TermSizes]
  /\ layout_sizes = NoRects
  /\ SessionIdle

\* self.layout.calc(terminal::size()?)
LayoutCalc ==
  /\ layout_sizes.kind = "None"
  /\ layout_sizes' = calc(layout_case, layout_case.term_size)
  /\ UNCHANGED <<net_vars, write_queue, msg_queue, quit, mutex, state, ui_enabled, rw_vars,
                 in_vars, main_vars, hist_vars, codec_vars, input_buffer, layout_case,
                 fn_vars, add_line_creates, issued>>

NextLayout == LayoutCalc

SpecLayout == InitLayout /\ [][NextLayout]_vars

\* the extent of the layout along its axis
Extent ==
  IF layout_case.direction = "Vertical" THEN layout_case.term_size[2]
  ELSE layout_case.term_size[1]

\* the size and the position of a rectangle along the axis of the layout
AxisSize(r) == IF layout_case.direction = "Vertical" THEN r.height ELSE r.width

AxisPos(r) == IF layout_case.direction = "Vertical" THEN r.y ELSE r.x

\* the sum of a sequence of numbers
RECURSIVE Sum(_)
Sum(seq) == IF seq = <<>> THEN 0 ELSE Head(seq) + Sum(Tail(seq))

\* the exact sizes, the weights and the resolved sizes of the first n entries
Exacts(secs, n) == Sum([i \in 1..n |-> IF secs[i].kind = "Exact" THEN secs[i].n ELSE 0])

Weights(secs, n) == Sum([i \in 1..n |-> IF secs[i].kind = "Fill" THEN secs[i].n ELSE 0])

Sizes(rects, n) == Sum([i \in 1..n |-> AxisSize(rects[i])])

\* a list of leaves along one axis with at least one Fill was resolved
FlatWithFill ==
  /\ layout_sizes.kind # "None"
  /\ \A i \in DOMAIN layout_case.sections : ~layout_case.sections[i].node
  /\ \E i \in DOMAIN layout_case.sections : layout_case.sections[i].kind = "Fill"

\* the sum of shares from + 1 .. from + w of the remainder split into
\* total-weight shares: the base size each, and one more for each of them
\* that is among the first (remainder mod total-weight)
Shares(from, w) ==
  LET remainder == Extent - Exacts(layout_case.sections, Len(layout_case.sections))
      total == Weights(layout_case.sections, Len(layout_case.sections))
  IN w * (remainder \div total)
       + Cardinality((from + 1)..(from + w) \cap 1..(remainder % total))

\* the sizes are as stated: they sum to the extent, an Exact(n) gets n, a
\* Fill(w) gets the next w shares, and the rectangles follow each other
SizesAsStated ==
  LET secs == layout_case.sections
      rects == layout_sizes.rects
  IN /\ layout_sizes.kind = "Ok"
     /\ Len(rects) = Len(secs)
     /\ Sizes(rects, Len(rects)) = Extent
     /\ \A i \in DOMAIN secs :
          IF secs[i].kind = "Exact" THEN AxisSize(rects[i]) = secs[i].n
          ELSE AxisSize(rects[i]) = Shares(Weights(secs, i - 1), secs[i].n)
     /\ \A i \in DOMAIN rects : AxisPos(rects[i]) = Sizes(rects, i - 1)

\* C20: for a list of sections along one axis with at least one Fill the
\* resolved sizes sum to the extent, every Exact(n) gets n, the remainder is
\* split into total-weight shares of the base size with the first
\* (remainder mod total-weight) shares one larger, each Fill(w) taking the
\* next w shares, and the rectangles are contiguous and in section order
C20_Original == FlatWithFill => SizesAsStated

\* the part of C20 the resolver keeps: the exact sizes take less than the
\* extent and the weights sum to 1..255
C20_WhenExactsFit ==
  (/\ FlatWithFill
   /\ Exacts(layout_case.sections, Len(layout_case.sections)) < Extent
   /\ Weights(layout_case.sections, Len(layout_case.sections)) \in 1..255) => SizesAsStated

\* the two examples: [Exact(1), Fill(1), Exact(1)] on 24 rows is [1, 22, 1],
\* and Fill(2), Fill(1) over 11 columns is [8, 3]
C20_Examples ==
  /\ (/\ layout_sizes.kind # "None" /\ layout_case.direction = "Vertical"
      /\ layout_case.term_size = <<80, 24>>
      /\ layout_case.sections = <<Leaf("Exact", 1), Leaf("Fill", 1), Leaf("Exact", 1)>>)
       => layout_sizes = RectsOk(<<Rect(0, 0, 80, 1), Rect(0, 1, 80, 22), Rect(0, 23, 80, 1)>>)
  /\ (/\ layout_sizes.kind # "None" /\ layout_case.direction = "Horizontal"
      /\ layout_case.term_size = <<11, 1>>
      /\ layout_case.sections = <<Leaf("Fill", 2), Leaf("Fill", 1)>>)
       => layout_sizes = RectsOk(<<Rect(0, 0, 8, 1), Rect(8, 0, 3, 1)>>)

(***************************************************************************)
(* QUIT on the wire.                                                       *)
(***************************************************************************)
\* a QUIT of the client was serialized
QuitSerialized ==
  codec_msg.cmd = "Quit" /\ codec_msg.source.kind = "None" /\ codec_ser.kind # "None"

\* C27: QUIT without a reason serializes to QUIT and CRLF, QUIT with reason
\* r to QUIT, a space, a colon, r and CRLF
C27_Original ==
  QuitSerialized =>
    /\ codec_ser.kind = "Ok"
    /\ codec_ser.bytes = IF codec_msg.args = <<>> THEN VERB_QUIT \o CRLF
                         ELSE VERB_QUIT \o <<SP, COLON>> \o codec_msg.args[1].s \o CRLF

\* the part of C27 that holds: QUIT without a reason
C27_QuitWithoutReason ==
  QuitSerialized /\ codec_msg.args = <<>> => codec_ser = SerOk(VERB_QUIT \o CRLF)

(***************************************************************************)
(* Dispatcher errors in the main loop.                                     *)
(***************************************************************************)
\* the main loop reported a dispatcher error
DispatchFailed ==
  \E i \in DOMAIN state.ui_history :
     state.ui_history[i].tag = "ERROR unable to handle message"

\* C24: when the dispatcher returns an error the main loop reports it and
\* sets the quit flag, and it dispatches no further message before it exits
C24_ErrorStopsDispatch ==
  /\ [](DispatchFailed => quit)
  /\ [][DispatchFailed => handled' = handled]_vars
  /\ [][(handled' # handled /\ handle(state, main_msg, write_receiver_alive).err)
          => DispatchFailed']_vars

\* the main loop has exited after a dispatcher error, with a message still
\* waiting in the inbound queue
C24_Witness == DispatchFailed /\ pc_main = "done" /\ msg_queue # <<>>

(***************************************************************************)
(* ServerIo::recv applied on its own to the results of the stream's reads  *)
(* (net/server_io.rs 69-125).                                              *)
(***************************************************************************)
\* the longest run of Interrupted results given to one recv call
MaxInterrupts == 8

\* what the stream answers once it stops interrupting: "PING\r\n", "PI",
\* a zero-byte read, WouldBlock, another io::Error
RecvFinals ==
  {ReadResult("Ok", <<80, 73, 78, 71, CR, LF>>), ReadResult("Ok", <<80, 73>>),
   ReadResult("Ok", <<>>), ReadResult("WouldBlock", <<>>), ReadResult("Io", <<>>)}

\* the carried-over partial bytes and the text accumulator before the call
RecvBuffers == {<<>>, <<240, 159>>}

RecvTexts == {<<>>, <<80, 73, 78>>}

\* everything but call and result
non_fn_vars ==
  <<net_vars, write_queue, msg_queue, quit, mutex, state, ui_enabled, rw_vars, in_vars,
    main_vars, hist_vars, codec_vars, ui_vars, add_line_creates, issued>>

InitRecv ==
  /\ ComponentsIdle /\ SessionIdle
  /\ call \in [fn : {"recv"}, interrupts : 0..MaxInterrupts, final : RecvFinals,
               buffer : RecvBuffers, message_buffer : RecvTexts]
  /\ result = NoResult

\* connection.recv() while the stream answers call.interrupts Interrupted
\* results and then call.final
RecvCall ==
  /\ call.fn = "recv" /\ result = NoResult
  /\ result' = Recv(call.buffer, call.message_buffer,
                    ReadResults(call.interrupts, call.final), FALSE)
  /\ UNCHANGED <<call, non_fn_vars>>

NextRecv == RecvCall

SpecRecv == InitRecv /\ [][NextRecv]_vars

RecvReturned == call.fn = "recv" /\ result # NoResult

\* C25: recv ends; after consecutive Interrupted results it retries at most
\* 5 times (MAX_RETRIES) and then fails with TooManyRetries; on WouldBlock
\* it returns an empty batch and leaves the text accumulator and the
\* carried-over bytes as they were; on a zero-byte read it fails with Closed.
C25_Original ==
  RecvReturned =>
    IF call.interrupts > MAX_RETRIES THEN result.kind = "TooManyRetries"
    ELSE /\ call.final.kind = "WouldBlock" =>
              /\ result.kind = "Ok" /\ result.msgs = <<>>
              /\ result.message_buffer = call.message_buffer
              /\ result.buffer = call.buffer
         /\ call.final = ReadResult("Ok", <<>>) => result.kind = "Closed"

\* recv as the code has it: the loop reads again after each of the first
\* MAX_RETRIES + 1 Interrupted results and fails on the next one
C25_RetriesOnceMore ==
  RecvReturned =>
    IF call.interrupts > MAX_RETRIES + 1 THEN result.kind = "TooManyRetries"
    ELSE /\ result.kind # "TooManyRetries"
         /\ call.final.kind = "WouldBlock" =>
              /\ result.kind = "Ok" /\ result.msgs = <<>>
              /\ result.message_buffer = call.message_buffer
              /\ result.buffer = call.buffer
         /\ call.final = ReadResult("Ok", <<>>) => result.kind = "Closed"

(***************************************************************************)
(* write_all_blocking applied on its own (ext.rs 25-46): wbuf is what is   *)
(* left of the buffer, sent what the stream took, call.answer the stream's *)
(* last answer.                                                            *)
(***************************************************************************)
\* the buffers given to write_all_blocking: the prefixes of "PING\r\n" and
\* of "a b\r\n"
WriteBuffers ==
  UNION {{Take(b, n) : n \in 0..Len(b)} :
           b \in {<<80, 73, 78, 71, CR, LF>>, <<97, SP, 98, CR, LF>>}}

NoAnswer == [kind |-> "None", n |-> 0]

InitWrite ==
  /\ ComponentsIdle
  /\ call \in [fn : {"write_all_blocking"}, buf : WriteBuffers, answer : {NoAnswer}]
  /\ result = NoResult
  /\ script = <<>> /\ wire = <<>> /\ debug_build = FALSE
  /\ sent = <<>> /\ buffer = <<>> /\ message_buffer = <<>>
  /\ write_queue = <<>> /\ msg_queue = <<>>
  /\ quit = FALSE /\ mutex = "free"
  /\ state = InitState /\ ui_enabled = TRUE
  /\ pc_rw = "done" /\ wbuf = call.buf /\ batch = <<>> /\ rw_err = ""
  /\ pc_in = "done" /\ inputs_left = 0 /\ in_err = ""
  /\ pc_main = "done" /\ init_todo = <<>> /\ main_msg = NoMsg /\ exit_reason = ""
  /\ enqueued = <<>> /\ produced = <<>> /\ handled = <<>>

non_write_vars ==
  <<script, wire, buffer, message_buffer, debug_build, write_queue, msg_queue, quit, mutex,
    state, ui_enabled, pc_rw, batch, rw_err, in_vars, main_vars, hist_vars, codec_vars,
    ui_vars, add_line_creates, issued>>

\* while !buf.is_empty() { match self.write(buf) ... } Ok(())
WriteCall ==
  /\ call.fn = "write_all_blocking" /\ result = NoResult
  /\ IF wbuf = <<>>
     THEN /\ result' = [kind |-> "Ok", err |-> ""]
          /\ UNCHANGED <<call, sent, wbuf>>
     ELSE \E r \in WriteResults(Len(wbuf)) :
          \E w \in {write_all_blocking(wbuf, r)} :
            /\ call' = [call EXCEPT !.answer = r]
            /\ sent' = sent \o w.written
            /\ wbuf' = w.buf
            /\ result' = IF w.kind = "Err" THEN [kind |-> "Err", err |-> w.err]
                         ELSE IF w.kind = "Done" THEN [kind |-> "Ok", err |-> ""]
                         ELSE NoResult
  /\ UNCHANGED non_write_vars

NextWrite == WriteCall

SpecWrite == InitWrite /\ [][NextWrite]_vars

WriteCalled == call.fn = "write_all_blocking"

\* C26: write_all_blocking returns Ok only when every byte of the buffer
\* has been written to the stream exactly once and in order, whatever the
\* partial writes, Interrupted and WouldBlock results on the way; a write
\* of 0 bytes makes it fail with WriteZero, any other error is returned as
\* it is, and an error is returned for no other reason.
C26_WriteAllBlocking ==
  WriteCalled =>
    /\ sent \o wbuf = call.buf
    /\ result.kind = "Ok" => sent = call.buf /\ wbuf = <<>>
    /\ call.answer = [kind |-> "Ok", n |-> 0] => result = [kind |-> "Err", err |-> "WriteZero"]
    /\ call.answer.kind = "Io" => result = [kind |-> "Err", err |-> "Io"]
    /\ call.answer.kind \in {"WouldBlock", "Interrupted"} => result = NoResult
    /\ result.kind = "Err" => call.answer.kind = "Io" \/ call.answer = [kind |-> "Ok", n |-> 0]

\* Ok returned for a six-byte buffer the stream took in three writes, the
\* last of one byte
C26_Witness ==
  /\ WriteCalled /\ result.kind = "Ok"
  /\ Len(call.buf) = 6 /\ sent = call.buf
  /\ call.answer = [kind |-> "Ok", n |-> 1]

\* the dispatcher has just been given a PRIVMSG whose body is the CTCP
\* command CLIENTINFO
ClientinfoDispatched ==
  /\ handled' # handled
  /\ handled'[Len(handled')].cmd = "Privmsg"
  /\ handled'[Len(handled')].args[2].s = <<1, 67, 76, 73, 69, 78, 84, 73, 78, 70, 79, 1>>

\* NOTICE <nick> :\x01CLIENTINFO ACTION CLIENTINFO\x01
ClientinfoNotice(nick) ==
  [source |-> NoSource, cmd |-> "Notice", num |-> 0,
   args |-> <<PList(<<nick>>),
              PString(<<1, 67, 76, 73, 69, 78, 84, 73, 78, 70, 79, 32, 65, 67, 84, 73, 79,
                        78, 32, 67, 76, 73, 69, 78, 84, 73, 78, 70, 79, 1>>)>>]

\* C28: a PRIVMSG with the CTCP body CLIENTINFO from a nick source makes
\* the dispatcher enqueue exactly one NOTICE to the sender's nick, with the
\* body \x01CLIENTINFO ACTION CLIENTINFO\x01, and append no line to any
\* history; from a server or without a source nothing is enqueued.
C28_Original ==
  [][ClientinfoDispatched =>
       LET m == handled'[Len(handled')]
       IN IF m.source.kind = "Nick"
          THEN /\ enqueued' = Append(enqueued, ClientinfoNotice(m.source.name))
               /\ state' = state
          ELSE enqueued' = enqueued]_vars

\* C28 as the code has it: handle_message runs once for each target of the
\* PRIVMSG, so a nick source gets one such NOTICE per target (exactly one
\* for a PRIVMSG with one target); no history changes.
C28_OneReplyPerTarget ==
  [][ClientinfoDispatched =>
       LET m == handled'[Len(handled')]
       IN IF m.source.kind = "Nick"
          THEN /\ enqueued' = enqueued \o [i \in 1..Len(m.args[1].l) |->
                                             ClientinfoNotice(m.source.name)]
               /\ state' = state
          ELSE enqueued' = enqueued /\ state' = state]_vars

\* a CLIENTINFO query from b to one target has been answered
C28_Witness ==
  /\ handled # <<>> /\ enqueued # <<>>
  /\ handled[Len(handled)].args = <<PList(<<<<97>>>>),
                                    PString(<<1, 67, 76, 73, 69, 78, 84, 73, 78, 70, 79, 1>>)>>
  /\ handled[Len(handled)].source.kind = "Nick"
  /\ enqueued[Len(enqueued)] = ClientinfoNotice(<<98>>)
  /\ state.phase = "Connected"

\* the session state but for what was written to the terminal
SessionData(st) == [st EXCEPT !.ui_history = <<>>]

\* the /join and /raw commands Command::parse makes of the inputs
RejectedCommands == {CmdOk("Join", <<35, 99>>), CmdOk("Join", <<120>>), CmdOk("Raw", <<113>>)}

\* handle_input has just been given /join #c, /join x or /raw q while the
\* session was not Connected, or /join x
RejectedIssued ==
  /\ issued' # issued
  /\ LET i == issued'[Len(issued')]
     IN \/ /\ i.phase # "Connected"
           /\ i.input \in {<<47, 106, 111, 105, 110, 32, 35, 99>>,
                           <<47, 106, 111, 105, 110, 32, 120>>, <<47, 114, 97, 119, 32, 113>>}
        \/ i.input = <<47, 106, 111, 105, 110, 32, 120>>

\* C29: /join and /raw while the session is not Connected, and /join with
\* an invalid channel name, are rejected: nothing is enqueued on the
\* outbound queue, no target is added and the session state is unchanged,
\* both in Command::handle itself and in the input handler that calls it.
C29_Rejected ==
  /\ [](\A c \in RejectedCommands :
          (state.phase # "Connected" \/ (c.cmd = "Join" /\ ~ChannelNameValid(c.arg))) =>
            LET r == CommandHandle(state, c, TRUE)
            IN r.st = state /\ r.out = <<>> /\ r.err # "")
  /\ [][RejectedIssued =>
          /\ enqueued' = enqueued /\ write_queue' = write_queue
          /\ state'.all_targets = state.all_targets
          /\ SessionData(state') = SessionData(state)]_vars

\* /join x was typed in a Connected session with a channel window
C29_Witness ==
  /\ issued # <<>>
  /\ issued[Len(issued)] = [input |-> <<47, 106, 111, 105, 110, 32, 120>>,
                            phase |-> "Connected", err |-> "Other"]
  /\ Len(state.all_targets) = 2 /\ enqueued # <<>>

\* the set of the elements of a sequence
Range(seq) == {seq[i] : i \in DOMAIN seq}

IsNamReply(m, c) ==
  /\ m.cmd = "Numeric" /\ m.num = RPL_NAMREPLY
  /\ Len(m.args) >= 3 /\ ~m.args[3].list /\ m.args[3].s = c

IsEndOfNames(m, c) ==
  /\ m.cmd = "Numeric" /\ m.num = RPL_ENDOFNAMES
  /\ Len(m.args) >= 2 /\ ~m.args[2].list /\ m.args[2].s = c

\* the nicknames a RPL_NAMREPLY lists: the words of its parameters after
\* the channel
NamReplyNicks(m) ==
  UNION { {w \in Range(Split(p, SP)) : w # <<>>} :
            p \in Range(StringsOf(SubSeq(m.args, 4, Len(m.args)))) }

\* the parameters of a RPL_NAMREPLY after the channel, each as a whole
NamReplyParams(m) == Range(StringsOf(SubSeq(m.args, 4, Len(m.args))))

\* the nicknames the RPL_NAMREPLYs for c in log list after the last
\* RPL_ENDOFNAMES for c
RECURSIVE NamesListed(_, _)
NamesListed(log, c) ==
  IF log = <<>> THEN {}
  ELSE LET m == log[Len(log)]
           before == NamesListed(SubSeq(log, 1, Len(log) - 1), c)
       IN IF IsNamReply(m, c) THEN before \cup NamReplyNicks(m)
          ELSE IF IsEndOfNames(m, c) THEN {}
          ELSE before

RECURSIVE ParamsListed(_, _)
ParamsListed(log, c) ==
  IF log = <<>> THEN {}
  ELSE LET m == log[Len(log)]
           before == ParamsListed(SubSeq(log, 1, Len(log) - 1), c)
       IN IF IsNamReply(m, c) THEN before \cup NamReplyParams(m)
          ELSE IF IsEndOfNames(m, c) THEN {}
          ELSE before

\* the dispatcher has just been given the RPL_ENDOFNAMES for the joined
\* channel c, after at least one RPL_NAMREPLY for c
EndOfNamesDispatched(c) ==
  /\ handled' # handled
  /\ IsEndOfNames(handled'[Len(handled')], c)
  /\ state.phase = "Connected" /\ c \in DOMAIN state.channels
  /\ \E i \in DOMAIN handled :
       /\ IsNamReply(handled[i], c)
       /\ \A j \in i..Len(handled) : ~IsEndOfNames(handled[j], c)

\* C30: after the RPL_NAMREPLYs for a joined channel c and the
\* RPL_ENDOFNAMES for c, every nickname those replies list, the ones
\* separated by spaces in the trailing parameter included, is an element of
\* c's user set on its own, and the users c had before are still there.
C30_Original ==
  [][\A c \in {<<35, 99>>} :
       EndOfNamesDispatched(c) =>
         /\ c \in DOMAIN state'.channels
         /\ NamesListed(handled, c) \subseteq state'.channels[c].users
         /\ state.channels[c].users \subseteq state'.channels[c].users]_vars

\* what the dispatcher does: each parameter after the channel becomes one
\* user, a trailing parameter with its spaces, and the users c had are kept
C30_WholeParams ==
  [][\A c \in {<<35, 99>>} :
       EndOfNamesDispatched(c) =>
         /\ c \in DOMAIN state'.channels
         /\ state'.channels[c].users = state.channels[c].users \cup ParamsListed(handled, c)]_vars

\* lines with a verb only a client sends, and the warning of the verb's arm
\* of the dispatcher: PASS x, NAMES #c, USER a 0 * a, PONG s t
ClientOnlyLines ==
  { [line |-> <<80, 65, 83, 83, 32, 120>>, tag |-> "client received PASS"],
    [line |-> <<78, 65, 77, 69, 83, 32, 35, 99>>, tag |-> "client received NAMES"],
    [line |-> <<85, 83, 69, 82, 32, 97, 32, 48, 32, 42, 32, 97>>,
     tag |-> "client received USER"],
    [line |-> <<80, 79, 78, 71, 32, 115, 32, 116>>, tag |-> "client received PONG"] }

\* the verbs among them that IrcCommand::parse has an arm for
ParsedClientOnlyLines == {v \in ClientOnlyLines : IrcMessageParse(v.line).kind = "Ok"}

\* the server has just sent the line
LineReceived(line) == script' = script \o line \o CRLF

\* the client warned with tag, changed nothing else, and goes on
WarnedAndWentOn(tag) ==
  /\ state' = warn(state, tag, <<>>)
  /\ state'.phase = state.phase /\ state'.nick = state.nick
  /\ DOMAIN state'.channels = DOMAIN state.channels
  /\ enqueued' = enqueued /\ write_queue' = write_queue
  /\ pc_rw' = "top" /\ ~quit'

\* C23: when the server sends a verb only a client sends (PASS, USER,
\* NAMES, PONG, ...) the client adds the warning "client received X",
\* leaves the phase, the nick, the channels and the outbound queue as they
\* were, and goes on with the messages that follow.
C23_Original ==
  [][\A v \in ClientOnlyLines : LineReceived(v.line) => WarnedAndWentOn(v.tag)]_vars

\* the same for the verbs IrcCommand::parse has an arm for (USER, PONG)
C23_ParsedVerbs ==
  [][\A v \in ParsedClientOnlyLines : LineReceived(v.line) => WarnedAndWentOn(v.tag)]_vars

(***************************************************************************)
(* Line::wrap in WordWrap mode (ui/text.rs 87-151) applied on its own to a *)
(* line of one unstyled span.  The text is ASCII letters, single spaces    *)
(* and tabs, every grapheme one byte; a wrapped line is the sequence       *)
(* of the pieces pushed on it.                                             *)
(***************************************************************************)
\* the length of the generated texts and the widest rectangle
MaxWrapLen == 5
MaxWrapWidth == 4

\* "hello world"
HelloWorld == <<104, 101, 108, 108, 111, SP, 119, 111, 114, 108, 100>>

\* the tab, the one single-byte grapheme wider than a column
TAB == 9

\* the width of a u16
U16 == 65536

\* display_width_char (util/unicode_width.rs 59-87) on a one-byte grapheme
display_width_char(g) == IF g = TAB THEN 4 ELSE 1

\* display_width: the sum of the widths of the graphemes
RECURSIVE display_width(_)
display_width(s) ==
  IF s = <<>> THEN 0 ELSE display_width_char(s[1]) + display_width(Tail(s))

\* the letters of a word at the start of s
RECURSIVE LeadingLetters(_)
LeadingLetters(s) ==
  IF s = <<>> \/ s[1] \in {SP, TAB} THEN <<>> ELSE <<s[1]>> \o LeadingLetters(Tail(s))

\* str::split_word_bounds on letters, single spaces and tabs: the runs of
\* letters, each space and each tab, in order
RECURSIVE split_word_bounds(_)
split_word_bounds(s) ==
  IF s = <<>> THEN <<>>
  ELSE IF s[1] \in {SP, TAB} THEN <<<<s[1]>>>> \o split_word_bounds(Tail(s))
  ELSE <<LeadingLetters(s)>> \o split_word_bounds(Drop(s, Len(LeadingLetters(s))))

\* lines.last_mut().unwrap().push(piece)
PushLast(lines, piece) == [lines EXCEPT ![Len(lines)] = Append(@, piece)]

\* word.graphemes(true).partition(..) of handle_word (ui/text.rs 116-123):
\* a grapheme goes to this_line while the remaining width is above 0, and
\* its width is subtracted from the u16; a subtraction below 0 panics in a
\* debug build and wraps around in a release build
RECURSIVE partition(_, _, _)
partition(word, remaining_width, debug) ==
  IF word = <<>>
  THEN [this_line |-> <<>>, next |-> <<>>, underflow |-> FALSE, panic |-> FALSE]
  ELSE IF remaining_width > 0
  THEN IF display_width_char(word[1]) > remaining_width /\ debug
       THEN [this_line |-> <<>>, next |-> <<>>, underflow |-> TRUE, panic |-> TRUE]
       ELSE LET r == partition(Tail(word),
                               (remaining_width - display_width_char(word[1])) % U16, debug)
            IN [r EXCEPT !.this_line = <<word[1]>> \o @,
                         !.underflow = @ \/ display_width_char(word[1]) > remaining_width]
  ELSE LET r == partition(Tail(word), remaining_width, debug)
       IN [r EXCEPT !.next = <<word[1]>> \o @]

\* handle_word (ui/text.rs 90-139): the lines and the remaining width after
\* the word
RECURSIVE handle_word(_, _, _, _, _)
handle_word(lines, width, remaining_width, word, debug) ==
  IF display_width(word) <= remaining_width
  THEN [lines |-> PushLast(lines, word),
        remaining_width |-> remaining_width - display_width(word),
        underflow |-> FALSE, panic |-> FALSE]
  ELSE IF display_width(word) >= width
  THEN LET p == partition(word, remaining_width, debug)
           r == handle_word(Append(PushLast(lines, p.this_line), <<>>), width, width,
                            p.next, debug)
       IN IF p.panic
          THEN [lines |-> lines, remaining_width |-> remaining_width,
                underflow |-> TRUE, panic |-> TRUE]
          ELSE [r EXCEPT !.underflow = @ \/ p.underflow]
  ELSE [lines |-> Append(lines, <<word>>),
        remaining_width |-> width - display_width(word),
        underflow |-> FALSE, panic |-> FALSE]

RECURSIVE WrapWords(_, _, _, _, _)
WrapWords(lines, width, remaining_width, words, debug) ==
  IF words = <<>> THEN [lines |-> lines, underflow |-> FALSE, panic |-> FALSE]
  ELSE LET r == handle_word(lines, width, remaining_width, Head(words), debug)
           rest == WrapWords(r.lines, width, r.remaining_width, Tail(words), debug)
       IN IF r.panic THEN [lines |-> r.lines, underflow |-> TRUE, panic |-> TRUE]
          ELSE [rest EXCEPT !.underflow = @ \/ r.underflow]

\* self.wrap(WrapMode::WordWrap, width)
wrap(text, width, debug) ==
  WrapWords(<< <<>> >>, width, width, split_word_bounds(text), debug)

\* the texts over a letter, the space and the tab with no two spaces in a row
WrapTexts ==
  {HelloWorld} \cup
  UNION { {t \in [1..n -> {97, SP, TAB}] : \A i \in 1..(n - 1) : t[i] # SP \/ t[i + 1] # SP} :
            n \in 1..MaxWrapLen }

InitWrap ==
  /\ ComponentsIdle /\ SessionIdle
  /\ call \in [fn : {"wrap"}, text : WrapTexts, width : 1..(MaxWrapWidth + 1),
               debug : BOOLEAN]
  /\ result = NoResult

\* line.wrap(WrapMode::WordWrap, rect.width)
WrapCall ==
  /\ call.fn = "wrap" /\ result = NoResult
  /\ \E r \in {wrap(call.text, call.width, call.debug)} :
       result' = [kind |-> IF r.panic THEN "Panic" ELSE "Lines",
                  lines |-> r.lines, underflow |-> r.underflow]
  /\ UNCHANGED <<call, non_fn_vars>>

NextWrap == WrapCall

SpecWrap == InitWrap /\ [][NextWrap]_vars

WrapCalled == call.fn = "wrap" /\ result # NoResult

WrapReturned == WrapCalled /\ result.kind = "Lines"

\* a sequence of sequences joined
RECURSIVE Concat(_)
Concat(seqs) == IF seqs = <<>> THEN <<>> ELSE Head(seqs) \o Concat(Tail(seqs))

\* the offsets in the text at which a piece of the wrapped lines ends
PieceEnds(lines) ==
  LET pieces == Concat(lines)
  IN {Len(Concat(SubSeq(pieces, 1, k))) : k \in 1..Len(pieces)}

\* the offsets strictly inside the i-th word of words
Inside(words, i) ==
  LET start == Len(Concat(SubSeq(words, 1, i - 1)))
  IN (start + 1)..(start + Len(words[i]) - 1)

\* C21: in WordWrap mode only a word wider than the rectangle is split: a
\* word that is not wider than the rectangle is on one line whole, at the
\* start of a new line when it does not fit in what remains of the current
\* one ("world" of "hello world" at width 5 stays on one line).
C21_Original ==
  WrapReturned =>
    LET words == split_word_bounds(call.text)
    IN /\ Concat(Concat(result.lines)) = call.text
       /\ \A i \in DOMAIN words :
            Len(words[i]) <= call.width => Inside(words, i) \cap PieceEnds(result.lines) = {}

\* what the code keeps: a word narrower than the rectangle is never split
C21_NarrowerWordsWhole ==
  WrapReturned =>
    LET words == split_word_bounds(call.text)
    IN /\ Concat(Concat(result.lines)) = call.text
       /\ \A i \in DOMAIN words :
            Len(words[i]) < call.width => Inside(words, i) \cap PieceEnds(result.lines) = {}

(***************************************************************************)
(* InputBuffer::get_visible_area (ui/input_buffer.rs 89-172) applied on    *)
(* its own, with the width draw_input gives it (ui/term.rs 288-318).  The  *)
(* buffers have no combining characters: a grapheme is a character.        *)
(***************************************************************************)
\* the longest buffer, in characters, and the widest input area
MaxVisibleChars == 4
MaxVisibleWidth == 4

\* grapheme_indices(true): the byte index of every grapheme from pos on
RECURSIVE grapheme_indices(_, _)
grapheme_indices(s, pos) ==
  IF pos >= Len(s) THEN <<>>
  ELSE <<pos>> \o grapheme_indices(s, pos + utf8_char_width(s[pos + 1]))

\* iter().nth(n).map_or(default, |(idx, _)| *idx)
NthOr(seq, n, default) == IF n < Len(seq) THEN seq[n + 1] ELSE default

\* iter().rev().nth(n).map(|(idx, _)| *idx): -1 stands for None
RevNth(seq, n) == IF n < Len(seq) THEN seq[Len(seq) - n] ELSE -1

saturating_sub(a, b) == IF a >= b THEN a - b ELSE 0

Min(a, b) == IF a <= b THEN a ELSE b

VisiblePanic == [kind |-> "Panic", start |-> 0, end |-> 0, cursor_pos |-> 0]

\* the slice self.buffer.get(start..end).expect(..) and the cursor column;
\* a start of -1 is the unwrap of None
Visible(s, start, end, cursor_pos) ==
  IF start < 0 \/ ~StrGetIsSome(s, start, end) THEN VisiblePanic
  ELSE [kind |-> "Ok", start |-> start, end |-> end, cursor_pos |-> cursor_pos]

get_visible_area(ib, width) ==
  LET graphemes == grapheme_indices(ib.buffer, 0)
      before == SelectSeq(graphemes, LAMBDA idx : idx < ib.cursor)
      after == SelectSeq(graphemes, LAMBDA idx : idx >= ib.cursor)
      half_width == width \div 2
      len == Len(ib.buffer)
      pin_left == Visible(ib.buffer, 0,
                          NthOr(after, Min(width - Len(before), Len(after)), len),
                          Len(before))
  IN IF width = 0 THEN [kind |-> "Ok", start |-> 0, end |-> 0, cursor_pos |-> 0]
     ELSE IF Len(before) < half_width THEN pin_left
     ELSE IF Len(after) >= half_width
     THEN Visible(ib.buffer, RevNth(before, saturating_sub(half_width, 1)),
                  NthOr(after, half_width, len), half_width)
     ELSE IF Len(before) + Len(after) >= width
     THEN Visible(ib.buffer,
                  RevNth(before, saturating_sub(Min(width - Len(after), Len(before)), 1)),
                  len, width - Len(after))
     ELSE pin_left

\* the buffers of n characters among a and U+00E9
RECURSIVE VisibleBuffers(_)
VisibleBuffers(n) ==
  IF n = 0 THEN {<<>>}
  ELSE {c \o b : c \in {<<97>>, <<195, 169>>}, b \in VisibleBuffers(n - 1)}

InitVisible ==
  /\ codec_msg = NoMsg /\ codec_ser = NoSer /\ codec_parsed = NoParse
  /\ layout_case = NoLayout /\ layout_sizes = NoRects
  /\ add_line_creates = FALSE /\ issued = <<>>
  /\ SessionIdle
  /\ \E n \in 0..MaxVisibleChars : \E b \in VisibleBuffers(n) :
     \E c \in {i \in 0..Len(b) : is_char_boundary(b, i)} :
       input_buffer = [buffer |-> b, cursor |-> c, panicked |-> FALSE]
  /\ call \in [fn : {"get_visible_area"}, rect_width : 0..(MaxVisibleWidth + 1)]
  /\ result = NoResult

\* draw_input: self.input_buffer.get_visible_area(input_rect.width - 1)
VisibleCall ==
  /\ call.fn = "get_visible_area" /\ result = NoResult
  /\ result' = get_visible_area(input_buffer, saturating_sub(call.rect_width, 1))
  /\ UNCHANGED <<call, non_fn_vars>>

NextVisible == VisibleCall

SpecVisible == InitVisible /\ [][NextVisible]_vars

\* the number of graphemes of the buffer that start in a..(b - 1)
GraphemesIn(a, b) ==
  Cardinality({i \in a..(b - 1) : is_char_boundary(input_buffer.buffer, i)})

\* what the claim says of a call with the effective width w
VisibleAsStated(w) ==
  LET B == GraphemesIn(0, input_buffer.cursor)
      A == GraphemesIn(input_buffer.cursor, Len(input_buffer.buffer))
  IN /\ result.kind = "Ok"
     /\ result.start <= input_buffer.cursor /\ input_buffer.cursor <= result.end
     /\ GraphemesIn(result.start, result.end) <= w
     /\ result.cursor_pos = GraphemesIn(result.start, input_buffer.cursor)
     /\ result.cursor_pos <= w
     /\ IF B < w \div 2 THEN result.start = 0
        ELSE IF A >= w \div 2
        THEN /\ GraphemesIn(result.start, input_buffer.cursor) = w \div 2
             /\ GraphemesIn(input_buffer.cursor, result.end) = w \div 2
        ELSE B + A >= w => result.end = Len(input_buffer.buffer)

VisibleReturned == call.fn = "get_visible_area" /\ result # NoResult

\* C22: for every effective width w >= 1, buffer and cursor position,
\* get_visible_area returns a contiguous slice of at most w graphemes that
\* contains the cursor position, and a cursor column that is the number of
\* graphemes of the slice before the cursor and at most w; the window is
\* pinned left when fewer than w/2 graphemes precede the cursor, centred
\* when at least w/2 follow it, pinned right otherwise when the buffer is
\* at least w long.
C22_Original ==
  VisibleReturned /\ call.rect_width >= 2 => VisibleAsStated(call.rect_width - 1)

\* the same for the effective widths of 2 and more
C22_WidthTwoAndMore ==
  VisibleReturned /\ call.rect_width >= 3 => VisibleAsStated(call.rect_width - 1)

\* the dispatcher has just been given a NOTICE
NoticeDispatched ==
  handled' # handled /\ handled'[Len(handled')].cmd = "Notice"

\* C36: the client never enqueues an outbound message in reaction to an
\* inbound NOTICE; a NOTICE whose body is CTCP CLIENTINFO gets no reply.
C36_Original == [][NoticeDispatched => enqueued' = enqueued]_vars

\* what the dispatcher keeps: a NOTICE whose body is not the CTCP command
\* CLIENTINFO enqueues nothing
C36_PlainNoticeSilent ==
  [][(NoticeDispatched
      /\ parse_ctcp(handled'[Len(handled')].args[2].s).kind # "Clientinfo")
       => enqueued' = enqueued]_vars

\* C33: the incomplete UTF-8 sequence recv carries over to the next read is
\* always shorter than 3 bytes: debug_assert!(invalid_len < 3) holds for
\* every way a valid UTF-8 stream, four-byte characters included, is cut
\* across reads.
C33_Original == Len(buffer) < 3 /\ pc_rw # "panicked"

\* what holds: at most 3 bytes are carried over, and only a build with
\* debug assertions stops on them
C33_AtMostThree == Len(buffer) <= 3 /\ (pc_rw = "panicked" => debug_build)

(***************************************************************************)
(* parse_ctcp (handlers/ctcp.rs 45-85) applied on its own to the body of a *)
(* PRIVMSG or NOTICE line as ServerIo::recv delivers it.                   *)
(***************************************************************************)
\* the number of bytes of a body after its leading 0x01
MaxCtcpLen == 3

\* the bytes of the bodies: A, space, the delimiter, CR, LF and NUL
CtcpBytes == {65, SP, CTCP_DELIM, CR, LF, 0}

CtcpBodies ==
  UNION { {<<CTCP_DELIM>> \o t : t \in [1..n -> CtcpBytes]} : n \in 0..MaxCtcpLen }

\* :b!u PRIVMSG a :<body> and :b!u NOTICE a :<body>
CtcpLine(verb, body) ==
  <<COLON, 98, BANG, 117, SP>> \o verb \o <<SP, 97, SP, COLON>> \o body

InitCtcp ==
  /\ ComponentsIdle /\ SessionIdle
  /\ call \in [fn : {"parse_ctcp"}, verb : {VERB_PRIVMSG, VERB_NOTICE}, body : CtcpBodies]
  /\ result = NoResult

\* recv of the line and its CRLF in one read, then parse_ctcp on the body
\* of the first message, as handle_message calls it
CtcpCall ==
  /\ call.fn = "parse_ctcp" /\ result = NoResult
  /\ \E r \in {Recv(<<>>, <<>>,
                    <<ReadResult("Ok", CtcpLine(call.verb, call.body) \o CRLF)>>, FALSE)} :
       result' =
         IF r.kind # "Ok" \/ r.msgs = <<>> THEN [kind |-> "NotDelivered"]
         ELSE IF r.msgs[1].cmd \notin {"Privmsg", "Notice"} THEN [kind |-> "NotDelivered"]
         ELSE IF r.msgs[1].args[2].s = <<>> \/ r.msgs[1].args[2].s[1] # CTCP_DELIM
         THEN [kind |-> "NotCtcp"]
         ELSE [kind |-> "Parsed", body |-> r.msgs[1].args[2].s,
               ctcp |-> parse_ctcp(r.msgs[1].args[2].s)]
  /\ UNCHANGED <<call, non_fn_vars>>

NextCtcp == CtcpCall

SpecCtcp == InitCtcp /\ [][NextCtcp]_vars

CtcpParsed == call.fn = "parse_ctcp" /\ result # NoResult /\ result.kind = "Parsed"

\* C32: for every PRIVMSG or NOTICE body the framer delivers that begins
\* with 0x01, parse_ctcp returns Some or None and does not reach its
\* unreachable branch: after the command bytes comes the end of the body,
\* the delimiter or a space.
C32_Original == CtcpParsed => result.ctcp.kind # "Panic"

\* what holds: the bodies without NUL, CR and LF do not reach the branch
C32_WithoutNulCrLf ==
  (CtcpParsed /\ \A i \in DOMAIN result.body : result.body[i] \notin {0, CR, LF})
    => result.ctcp.kind # "Panic"

\* the Lines stored in the histories of the session: the status window,
\* every channel and user window, and the terminal's own history
StoredLines(st) ==
  Range(st.status_messages) \cup Range(st.ui_history)
    \cup UNION {Range(st.channels[c].messages) : c \in DOMAIN st.channels}
    \cup UNION {Range(st.users[u].messages) : u \in DOMAIN st.users}

\* C31: no Line stored in any history contains a CR or LF character,
\* whichever constructor built it and whatever text the server sent,
\* a lone CR or a lone LF that the framer does not split on included.
C31_Original ==
  \A l \in StoredLines(state) : \A i \in DOMAIN l.text : l.text[i] \notin {CR, LF}

\* C35: IrcMessage::parse is total on server input: for every line without
\* CRLF, lines with message tags, lines whose verb the client does not
\* implement and lines whose source has an empty or invalid nick included,
\* it returns a message or a parse error and never aborts the thread.
C35_Original ==
  [][\A line \in DispatchLines : LineReceived(line) => pc_rw' # "panicked"]_vars

\* what holds: a line that parse answers with a message or an error leaves
\* the thread running or ends recv with that error
C35_AnsweredLines ==
  [][\A line \in DispatchLines :
       (LineReceived(line) /\ IrcMessageParse(line).kind # "Panic")
         => pc_rw' \in {"top", "err"}]_vars

\* a list of leaves along one axis was resolved
FlatResolved ==
  /\ layout_sizes.kind # "None"
  /\ \A i \in DOMAIN layout_case.sections : ~layout_case.sections[i].node

\* calc returned, with one rectangle per leaf
OneRectPerLeaf ==
  layout_sizes.kind = "Ok" /\ Len(layout_sizes.rects) = Len(layout_case.sections)

\* C38: Layout::calc returns one rectangle per leaf without aborting for
\* every terminal size whose extent along the axis is at least the sum of
\* the Exact sizes: also when an Exact section takes all that remains, when
\* nothing remains for the Fill sections, and when the list has no Fill.
C38_Original ==
  (FlatResolved /\ Exacts(layout_case.sections, Len(layout_case.sections)) <= Extent)
    => OneRectPerLeaf

\* what holds: the Exact sizes add up to less than the extent, and the list
\* has Fill sections whose weights add up to 1..255
C38_SpaceLeftForFills ==
  (/\ FlatResolved
   /\ Exacts(layout_case.sections, Len(layout_case.sections)) < Extent
   /\ Weights(layout_case.sections, Len(layout_case.sections)) \in 1..255) => OneRectPerLeaf

\* every produced line is at most as wide as the rectangle
LinesFit == \A i \in DOMAIN result.lines : display_width(Concat(result.lines[i])) <= call.width

\* C39: for every width >= 1 and every text, graphemes of display width 2
\* and tabs of width 4 included, WordWrap terminates, its remaining-width
\* counter never goes below 0, every produced line has display width at
\* most the width, and the produced lines joined are the original text.
C39_Original ==
  WrapCalled =>
    /\ result.kind = "Lines" /\ ~result.underflow
    /\ LinesFit
    /\ Concat(Concat(result.lines)) = call.text

\* what holds: for text whose graphemes are all one column wide
C39_NarrowGraphemes ==
  (WrapCalled /\ \A i \in DOMAIN call.text : display_width_char(call.text[i]) = 1) =>
    /\ result.kind = "Lines" /\ ~result.underflow
    /\ LinesFit
    /\ Concat(Concat(result.lines)) = call.text

(***************************************************************************)
(* The scrollback of the terminal (ui/term.rs): the number of lines at the *)
(* end of the history that render skips.  Ctrl-P scrolls back, Ctrl-N      *)
(* scrolls forward, and writeln, warn and error append a line.             *)
(***************************************************************************)
\* the longest history
MaxHistory == 4

\* the lines appended: one by writeln, one by warn, one by error
ScrollLines == {Line("line", "", <<97>>), Line("warn", "", <<97>>), Line("error", "", <<97>>)}

non_state_vars ==
  <<net_vars, write_queue, msg_queue, quit, mutex, ui_enabled, rw_vars, in_vars, main_vars,
    hist_vars, component_vars>>

InitScroll == ComponentsInit /\ SessionIdle

\* scrolling back without the cap at the length of the history
ScrollBack_Uncapped ==
  /\ state.scrollback <= MaxHistory
  /\ state' = [state EXCEPT !.scrollback = @ + 1]
  /\ UNCHANGED non_state_vars

\* Ctrl-P: min(scrollback.saturating_add(1), history.len().saturating_sub(1));
\* the history is far shorter than usize::MAX, so the addition is exact
ScrollBack ==
  /\ state' = [state EXCEPT !.scrollback =
                 Min(@ + 1, saturating_sub(Len(state.ui_history), 1))]
  /\ UNCHANGED non_state_vars

\* Ctrl-N: scrollback.saturating_sub(1)
ScrollForward ==
  /\ state' = [state EXCEPT !.scrollback = saturating_sub(@, 1)]
  /\ UNCHANGED non_state_vars

\* writeln, warn, error: history.push_back(line)
ScrollAppend ==
  /\ Len(state.ui_history) < MaxHistory
  /\ \E l \in ScrollLines : state' = ui_push(state, l.kind, l.tag, l.text)
  /\ UNCHANGED non_state_vars

NextScroll == ScrollBack \/ ScrollForward \/ ScrollAppend

SpecScroll == InitScroll /\ [][NextScroll]_vars

\* C37: after any sequence of scroll-back, scroll-forward and line-append
\* operations the scrollback offset is at least 0 and at most
\* max(history length - 1, 0), so with a non-empty history render skips
\* fewer lines than the history holds.
C37_ScrollbackBounded ==
  /\ state.scrollback >= 0
  /\ state.scrollback <= saturating_sub(Len(state.ui_history), 1)
  /\ state.ui_history # <<>> => state.scrollback < Len(state.ui_history)

\* scrolled back as far as the cap allows, in a history of several lines
C37_Witness ==
  Len(state.ui_history) >= 3 /\ state.scrollback = Len(state.ui_history) - 1

\* the QUIT of the /quit command was put on the outbound queue
QuitEnqueued == \E i \in DOMAIN enqueued : enqueued[i].cmd = "Quit"

\* the reader/writer thread returned at its QUIT_REQUESTED check
RwReturnedOnQuit == pc_rw = "done" /\ rw_err = "" /\ quit

\* C34: the QUIT message enqueued by /quit, and every message enqueued on
\* the outbound queue before it, is written to the server before the
\* reader/writer thread terminates, for every interleaving of the input
\* thread with the reader/writer loop.
C34_Original == (QuitEnqueued /\ RwReturnedOnQuit) => write_queue = <<>>

\* a step in which a thread other than the main loop uses the terminal:
\* the input thread returns from state.ui.input() (the poll), or the input
\* thread or the reader/writer thread reports an error with ui.error, which
\* renders
TerminalUsed ==
  \/ pc_in = "poll" /\ pc_in' # "poll"
  \/ pc_in = "report" /\ pc_in' = "done"
  \/ pc_rw = "err" /\ pc_rw' = "done"

\* C40: after the main loop has disabled the UI on quit no other thread
\* renders to the terminal or polls it for input: a thread that read the
\* quit flag as false before it was set cannot afterwards take the session
\* mutex and draw.
C40_Original == [][~ui_enabled => ~TerminalUsed]_vars
====
